---- MODULE Spec2Model ----
(***************************************************************************)
(* SuperUI component lookup and ranked search.                             *)
(*                                                                         *)
(* The API server keeps one static component table (COMPONENT_LIBRARY)     *)
(* and answers lookups and searches over it.  Every request is handled     *)
(* from the idle server and leaves no state behind; the model keeps the    *)
(* arguments and the outcome of the last call so that properties of the    *)
(* handlers can be stated over them.                                       *)
(*                                                                         *)
(* A JavaScript string is modelled as the sequence of its characters,      *)
(* each a one-character string, so that toLowerCase, trim, includes,       *)
(* startsWith and split are computed character by character.               *)
(***************************************************************************)
EXTENDS Integers, Sequences, FiniteSets, TLC

VARIABLES
  pc,          \* "idle": no call in progress; "done": the last call returned
  op,          \* the function or route that was called
  query,       \* its query / searchQuery / componentName argument
  category,    \* optional category argument: <<>> (absent) or <<c>>
  limit,       \* optional limit argument: <<>> (absent) or <<n>>
  value,       \* result of a single-component lookup (a JS value)
  components,  \* result list of a search: indices into COMPONENT_LIBRARY
  scores,      \* the score of each entry of components (scoredComponents)
  matched,     \* scoredComponents.length before slice (0: no ranked search ran)
  summaries,   \* result of listComponents: ComponentSummary records
  body,        \* kind of text a service function returned, or "throws"
  httpStatus,  \* status code a route answered with (0: not a route)
  origin       \* index of the listed component a details call came from

finderVars == << pc, op, query, category, limit, value, components, scores,
                 matched, summaries, body, httpStatus, origin >>

\* matchComponentsFromAnalysis (component-matcher.ts)
VARIABLES
  mpc,                \* "idle" or "done": a match has returned
  analysis,           \* the analysis text of the last match
  matchedComponents,  \* the components returned: indices into COMPONENT_LIBRARY
  priorities          \* the entry of priorities of each returned component

matcherVars == << mpc, analysis, matchedComponents, priorities >>

MatcherIdle ==
  /\ mpc = "idle"
  /\ analysis = <<>>
  /\ matchedComponents = <<>>
  /\ priorities = <<>>

\* getTemplate (template-service.ts) and its caller, who holds the
\* conversation state between requests
VARIABLES
  calls,              \* calls made since the conversation began
  fresh,              \* the conversation began with a call without state
  complete,           \* the state the last request carried came with the template
  request,            \* the last TemplateRequest: message and conversationState
  response,           \* what getTemplate returned for it
  conversationState,  \* the state the caller carries: <<>> or <<state>>
  steps               \* currentStep of the carried state, call after call

conversationVars ==
  << calls, fresh, complete, request, response, conversationState, steps >>

NoRequest == [message |-> "", conversationState |-> <<>>]

NoResponse == [type |-> "none"]

ConversationIdle ==
  /\ calls = 0
  /\ fresh = FALSE
  /\ complete = FALSE
  /\ request = NoRequest
  /\ response = NoResponse
  /\ conversationState = <<>>
  /\ steps = <<>>

\* screenshot-service.ts
VARIABLES
  browser,    \* the module handle: 0 (null) or the number of a launched browser
  browsers,   \* the browsers launched so far, each with its status
  captures,   \* the captureScreenshot calls, each with its position
  shutdown    \* the closeBrowser call of the signal handlers

screenshotVars == << browser, browsers, captures, shutdown >>

MaxCaptures == 2

Captures == 1..MaxCaptures

NoCapture ==
  [pc |-> "idle", browserInstance |-> 0, page |-> "none", timer |-> -1,
   result |-> "none", open |-> FALSE, gotos |-> 0, thrown |-> <<>>]

ScreenshotIdle ==
  /\ browser = 0
  /\ browsers = <<>>
  /\ captures = [c \in Captures |-> NoCapture]
  /\ shutdown = [pc |-> "none", closing |-> 0, signals |-> 0]

\* routes/clone.ts and routes/template.ts: one request and its response
VARIABLES
  httpRequest,   \* the request being answered: its route and body
  httpResponse    \* the response: status and error message

httpVars == << httpRequest, httpResponse >>

NoHttpRequest == [route |-> "none"]

NoHttpResponse == [status |-> 0, error |-> ""]

HttpIdle == httpRequest = NoHttpRequest /\ httpResponse = NoHttpResponse

\* the two template renderers, and the MCP server process with its tools
VARIABLES
  rendered,   \* the last rendered template: answers, step and section list
  toolCall,   \* the tool call being executed by the MCP server
  mcpServer   \* runServer: isShuttingDown, the transport and the process

clientVars == << rendered, toolCall, mcpServer >>

NotRendered == [step |-> 0]

NoToolCall == [pc |-> "none"]

\* runServer up to its await of server.connect: the handlers are registered
Running ==
  [isShuttingDown |-> FALSE, transport |-> "connecting", closes |-> 0,
   cleanups |-> 0, noops |-> 0, exitCode |-> -1, event |-> "none"]

ClientIdle == rendered = NotRendered /\ toolCall = NoToolCall /\ mcpServer = Running

\* the state outside the component finder
otherVars ==
  << matcherVars, conversationVars, screenshotVars, httpVars, clientVars >>

vars == << finderVars, otherVars >>

(***************************************************************************)
(* The component table, in insertion order (Object.entries/Object.values   *)
(* order for string keys).                                                 *)
(***************************************************************************)
COMPONENT_LIBRARY ==
  <<
    \* "button" (line 26)
    [ key |-> <<"b","u","t","t","o","n">>,
      componentName |-> <<"b","u","t","t","o","n">>,
      displayName |-> <<"B","u","t","t","o","n">>,
      description |-> <<"A"," ","v","e","r","s","a","t","i","l","e"," ","b","u","t","t","o","n"," ","c","o","m","p","o","n","e","n","t"," ","w","i","t","h"," ","m","u","l","t","i","p","l","e"," ","v","a","r","i","a","n","t","s"," ","a","n","d"," ","s","i","z","e","s">>,
      category |-> "form",
      tags |-> << <<"b","u","t","t","o","n">>,
                  <<"c","l","i","c","k">>,
                  <<"a","c","t","i","o","n">>,
                  <<"p","r","i","m","a","r","y">>,
                  <<"s","e","c","o","n","d","a","r","y">> >> ],
    \* "input" (line 36)
    [ key |-> <<"i","n","p","u","t">>,
      componentName |-> <<"i","n","p","u","t">>,
      displayName |-> <<"I","n","p","u","t">>,
      description |-> <<"A"," ","t","e","x","t"," ","i","n","p","u","t"," ","c","o","m","p","o","n","e","n","t"," ","f","o","r"," ","u","s","e","r"," ","i","n","p","u","t">>,
      category |-> "form",
      tags |-> << <<"i","n","p","u","t">>,
                  <<"t","e","x","t">>,
                  <<"f","o","r","m">>,
                  <<"f","i","e","l","d">>,
                  <<"t","y","p","e">> >> ],
    \* "textarea" (line 46)
    [ key |-> <<"t","e","x","t","a","r","e","a">>,
      componentName |-> <<"t","e","x","t","a","r","e","a">>,
      displayName |-> <<"T","e","x","t","a","r","e","a">>,
      description |-> <<"A"," ","m","u","l","t","i","-","l","i","n","e"," ","t","e","x","t"," ","i","n","p","u","t"," ","c","o","m","p","o","n","e","n","t">>,
      category |-> "form",
      tags |-> << <<"t","e","x","t","a","r","e","a">>,
                  <<"t","e","x","t">>,
                  <<"m","u","l","t","i","l","i","n","e">>,
                  <<"m","e","s","s","a","g","e">>,
                  <<"c","o","m","m","e","n","t">> >> ],
    \* "select" (line 56)
    [ key |-> <<"s","e","l","e","c","t">>,
      componentName |-> <<"s","e","l","e","c","t">>,
      displayName |-> <<"S","e","l","e","c","t">>,
      description |-> <<"A"," ","d","r","o","p","d","o","w","n"," ","s","e","l","e","c","t"," ","c","o","m","p","o","n","e","n","t">>,
      category |-> "form",
      tags |-> << <<"s","e","l","e","c","t">>,
                  <<"d","r","o","p","d","o","w","n">>,
                  <<"o","p","t","i","o","n">>,
                  <<"c","h","o","i","c","e">>,
                  <<"f","o","r","m">> >> ],
    \* "checkbox" (line 66)
    [ key |-> <<"c","h","e","c","k","b","o","x">>,
      componentName |-> <<"c","h","e","c","k","b","o","x">>,
      displayName |-> <<"C","h","e","c","k","b","o","x">>,
      description |-> <<"A"," ","c","h","e","c","k","b","o","x"," ","i","n","p","u","t"," ","c","o","m","p","o","n","e","n","t">>,
      category |-> "form",
      tags |-> << <<"c","h","e","c","k","b","o","x">>,
                  <<"c","h","e","c","k">>,
                  <<"f","o","r","m">>,
                  <<"b","o","o","l","e","a","n">>,
                  <<"t","o","g","g","l","e">> >> ],
    \* "radio" (line 76)
    [ key |-> <<"r","a","d","i","o">>,
      componentName |-> <<"r","a","d","i","o","-","g","r","o","u","p">>,
      displayName |-> <<"R","a","d","i","o"," ","G","r","o","u","p">>,
      description |-> <<"A"," ","r","a","d","i","o"," ","b","u","t","t","o","n"," ","g","r","o","u","p"," ","c","o","m","p","o","n","e","n","t">>,
      category |-> "form",
      tags |-> << <<"r","a","d","i","o">>,
                  <<"g","r","o","u","p">>,
                  <<"c","h","o","i","c","e">>,
                  <<"f","o","r","m">>,
                  <<"o","p","t","i","o","n">> >> ],
    \* "card" (line 88)
    [ key |-> <<"c","a","r","d">>,
      componentName |-> <<"c","a","r","d">>,
      displayName |-> <<"C","a","r","d">>,
      description |-> <<"A"," ","f","l","e","x","i","b","l","e"," ","c","a","r","d"," ","c","o","m","p","o","n","e","n","t"," ","f","o","r"," ","c","o","n","t","e","n","t"," ","d","i","s","p","l","a","y">>,
      category |-> "layout",
      tags |-> << <<"c","a","r","d">>,
                  <<"c","o","n","t","a","i","n","e","r">>,
                  <<"c","o","n","t","e","n","t">>,
                  <<"p","a","n","e","l">>,
                  <<"b","o","x">> >> ],
    \* "sheet" (line 98)
    [ key |-> <<"s","h","e","e","t">>,
      componentName |-> <<"s","h","e","e","t">>,
      displayName |-> <<"S","h","e","e","t">>,
      description |-> <<"A"," ","s","l","i","d","e","-","o","u","t"," ","p","a","n","e","l"," ","c","o","m","p","o","n","e","n","t">>,
      category |-> "layout",
      tags |-> << <<"s","h","e","e","t">>,
                  <<"p","a","n","e","l">>,
                  <<"d","r","a","w","e","r">>,
                  <<"s","l","i","d","e">>,
                  <<"o","v","e","r","l","a","y">> >> ],
    \* "dialog" (line 108)
    [ key |-> <<"d","i","a","l","o","g">>,
      componentName |-> <<"d","i","a","l","o","g">>,
      displayName |-> <<"D","i","a","l","o","g">>,
      description |-> <<"A"," ","m","o","d","a","l"," ","d","i","a","l","o","g"," ","c","o","m","p","o","n","e","n","t">>,
      category |-> "layout",
      tags |-> << <<"d","i","a","l","o","g">>,
                  <<"m","o","d","a","l">>,
                  <<"p","o","p","u","p">>,
                  <<"o","v","e","r","l","a","y">>,
                  <<"w","i","n","d","o","w">> >> ],
    \* "popover" (line 118)
    [ key |-> <<"p","o","p","o","v","e","r">>,
      componentName |-> <<"p","o","p","o","v","e","r">>,
      displayName |-> <<"P","o","p","o","v","e","r">>,
      description |-> <<"A"," ","f","l","o","a","t","i","n","g"," ","p","a","n","e","l"," ","c","o","m","p","o","n","e","n","t">>,
      category |-> "layout",
      tags |-> << <<"p","o","p","o","v","e","r">>,
                  <<"t","o","o","l","t","i","p">>,
                  <<"f","l","o","a","t","i","n","g">>,
                  <<"p","a","n","e","l">>,
                  <<"h","o","v","e","r">> >> ],
    \* "tabs" (line 130)
    [ key |-> <<"t","a","b","s">>,
      componentName |-> <<"t","a","b","s">>,
      displayName |-> <<"T","a","b","s">>,
      description |-> <<"A"," ","t","a","b","b","e","d"," ","i","n","t","e","r","f","a","c","e"," ","c","o","m","p","o","n","e","n","t">>,
      category |-> "navigation",
      tags |-> << <<"t","a","b","s">>,
                  <<"n","a","v","i","g","a","t","i","o","n">>,
                  <<"m","e","n","u">>,
                  <<"s","w","i","t","c","h","i","n","g">>,
                  <<"p","a","n","e","l">> >> ],
    \* "accordion" (line 140)
    [ key |-> <<"a","c","c","o","r","d","i","o","n">>,
      componentName |-> <<"a","c","c","o","r","d","i","o","n">>,
      displayName |-> <<"A","c","c","o","r","d","i","o","n">>,
      description |-> <<"A"," ","c","o","l","l","a","p","s","i","b","l","e"," ","c","o","n","t","e","n","t"," ","c","o","m","p","o","n","e","n","t">>,
      category |-> "navigation",
      tags |-> << <<"a","c","c","o","r","d","i","o","n">>,
                  <<"c","o","l","l","a","p","s","e">>,
                  <<"e","x","p","a","n","d">>,
                  <<"c","o","n","t","e","n","t">>,
                  <<"f","a","q">> >> ],
    \* "breadcrumb" (line 150)
    [ key |-> <<"b","r","e","a","d","c","r","u","m","b">>,
      componentName |-> <<"b","r","e","a","d","c","r","u","m","b">>,
      displayName |-> <<"B","r","e","a","d","c","r","u","m","b">>,
      description |-> <<"A"," ","n","a","v","i","g","a","t","i","o","n"," ","b","r","e","a","d","c","r","u","m","b"," ","c","o","m","p","o","n","e","n","t">>,
      category |-> "navigation",
      tags |-> << <<"b","r","e","a","d","c","r","u","m","b">>,
                  <<"n","a","v","i","g","a","t","i","o","n">>,
                  <<"p","a","t","h">>,
                  <<"h","i","e","r","a","r","c","h","y">>,
                  <<"l","o","c","a","t","i","o","n">> >> ],
    \* "table" (line 162)
    [ key |-> <<"t","a","b","l","e">>,
      componentName |-> <<"t","a","b","l","e">>,
      displayName |-> <<"T","a","b","l","e">>,
      description |-> <<"A"," ","d","a","t","a"," ","t","a","b","l","e"," ","c","o","m","p","o","n","e","n","t">>,
      category |-> "data",
      tags |-> << <<"t","a","b","l","e">>,
                  <<"d","a","t","a">>,
                  <<"g","r","i","d">>,
                  <<"r","o","w","s">>,
                  <<"c","o","l","u","m","n","s">> >> ],
    \* "badge" (line 172)
    [ key |-> <<"b","a","d","g","e">>,
      componentName |-> <<"b","a","d","g","e">>,
      displayName |-> <<"B","a","d","g","e">>,
      description |-> <<"A"," ","s","m","a","l","l"," ","s","t","a","t","u","s"," ","i","n","d","i","c","a","t","o","r"," ","c","o","m","p","o","n","e","n","t">>,
      category |-> "data",
      tags |-> << <<"b","a","d","g","e">>,
                  <<"l","a","b","e","l">>,
                  <<"s","t","a","t","u","s">>,
                  <<"i","n","d","i","c","a","t","o","r">>,
                  <<"t","a","g">> >> ],
    \* "avatar" (line 182)
    [ key |-> <<"a","v","a","t","a","r">>,
      componentName |-> <<"a","v","a","t","a","r">>,
      displayName |-> <<"A","v","a","t","a","r">>,
      description |-> <<"A"," ","u","s","e","r"," ","p","r","o","f","i","l","e"," ","i","m","a","g","e"," ","c","o","m","p","o","n","e","n","t">>,
      category |-> "data",
      tags |-> << <<"a","v","a","t","a","r">>,
                  <<"p","r","o","f","i","l","e">>,
                  <<"i","m","a","g","e">>,
                  <<"u","s","e","r">>,
                  <<"p","i","c","t","u","r","e">> >> ],
    \* "progress" (line 192)
    [ key |-> <<"p","r","o","g","r","e","s","s">>,
      componentName |-> <<"p","r","o","g","r","e","s","s">>,
      displayName |-> <<"P","r","o","g","r","e","s","s">>,
      description |-> <<"A"," ","p","r","o","g","r","e","s","s"," ","b","a","r"," ","c","o","m","p","o","n","e","n","t">>,
      category |-> "data",
      tags |-> << <<"p","r","o","g","r","e","s","s">>,
                  <<"b","a","r">>,
                  <<"l","o","a","d","i","n","g">>,
                  <<"p","e","r","c","e","n","t">>,
                  <<"s","t","a","t","u","s">> >> ],
    \* "skeleton" (line 202)
    [ key |-> <<"s","k","e","l","e","t","o","n">>,
      componentName |-> <<"s","k","e","l","e","t","o","n">>,
      displayName |-> <<"S","k","e","l","e","t","o","n">>,
      description |-> <<"A"," ","l","o","a","d","i","n","g"," ","s","k","e","l","e","t","o","n"," ","c","o","m","p","o","n","e","n","t">>,
      category |-> "data",
      tags |-> << <<"s","k","e","l","e","t","o","n">>,
                  <<"l","o","a","d","i","n","g">>,
                  <<"p","l","a","c","e","h","o","l","d","e","r">>,
                  <<"s","h","i","m","m","e","r">>,
                  <<"w","a","i","t">> >> ],
    \* "alert" (line 214)
    [ key |-> <<"a","l","e","r","t">>,
      componentName |-> <<"a","l","e","r","t">>,
      displayName |-> <<"A","l","e","r","t">>,
      description |-> <<"A","n"," ","a","l","e","r","t"," ","n","o","t","i","f","i","c","a","t","i","o","n"," ","c","o","m","p","o","n","e","n","t">>,
      category |-> "feedback",
      tags |-> << <<"a","l","e","r","t">>,
                  <<"n","o","t","i","f","i","c","a","t","i","o","n">>,
                  <<"m","e","s","s","a","g","e">>,
                  <<"w","a","r","n","i","n","g">>,
                  <<"i","n","f","o">> >> ],
    \* "toast" (line 224)
    [ key |-> <<"t","o","a","s","t">>,
      componentName |-> <<"t","o","a","s","t">>,
      displayName |-> <<"T","o","a","s","t">>,
      description |-> <<"A"," ","t","o","a","s","t"," ","n","o","t","i","f","i","c","a","t","i","o","n"," ","c","o","m","p","o","n","e","n","t">>,
      category |-> "feedback",
      tags |-> << <<"t","o","a","s","t">>,
                  <<"n","o","t","i","f","i","c","a","t","i","o","n">>,
                  <<"m","e","s","s","a","g","e">>,
                  <<"p","o","p","u","p">>,
                  <<"t","e","m","p","o","r","a","r","y">> >> ],
    \* "separator" (line 234)
    [ key |-> <<"s","e","p","a","r","a","t","o","r">>,
      componentName |-> <<"s","e","p","a","r","a","t","o","r">>,
      displayName |-> <<"S","e","p","a","r","a","t","o","r">>,
      description |-> <<"A"," ","v","i","s","u","a","l"," ","s","e","p","a","r","a","t","o","r"," ","c","o","m","p","o","n","e","n","t">>,
      category |-> "feedback",
      tags |-> << <<"s","e","p","a","r","a","t","o","r">>,
                  <<"d","i","v","i","d","e","r">>,
                  <<"l","i","n","e">>,
                  <<"b","o","r","d","e","r">>,
                  <<"s","p","l","i","t">> >> ],
    \* "label" (line 246)
    [ key |-> <<"l","a","b","e","l">>,
      componentName |-> <<"l","a","b","e","l">>,
      displayName |-> <<"L","a","b","e","l">>,
      description |-> <<"A"," ","f","o","r","m"," ","l","a","b","e","l"," ","c","o","m","p","o","n","e","n","t"," ","w","i","t","h"," ","a","c","c","e","s","s","i","b","i","l","i","t","y"," ","s","u","p","p","o","r","t">>,
      category |-> "form",
      tags |-> << <<"l","a","b","e","l">>,
                  <<"f","o","r","m">>,
                  <<"t","e","x","t">>,
                  <<"f","i","e","l","d">>,
                  <<"a","c","c","e","s","s","i","b","i","l","i","t","y">> >> ],
    \* "form" (line 256)
    [ key |-> <<"f","o","r","m">>,
      componentName |-> <<"f","o","r","m">>,
      displayName |-> <<"F","o","r","m">>,
      description |-> <<"F","o","r","m"," ","c","o","m","p","o","n","e","n","t"," ","w","i","t","h"," ","R","e","a","c","t"," ","H","o","o","k"," ","F","o","r","m"," ","i","n","t","e","g","r","a","t","i","o","n">>,
      category |-> "form",
      tags |-> << <<"f","o","r","m">>,
                  <<"v","a","l","i","d","a","t","i","o","n">>,
                  <<"r","e","a","c","t","-","h","o","o","k","-","f","o","r","m">>,
                  <<"i","n","p","u","t">>,
                  <<"s","u","b","m","i","t">> >> ],
    \* "switch" (line 266)
    [ key |-> <<"s","w","i","t","c","h">>,
      componentName |-> <<"s","w","i","t","c","h">>,
      displayName |-> <<"S","w","i","t","c","h">>,
      description |-> <<"A"," ","t","o","g","g","l","e"," ","s","w","i","t","c","h"," ","c","o","m","p","o","n","e","n","t"," ","f","o","r"," ","b","i","n","a","r","y"," ","c","h","o","i","c","e","s">>,
      category |-> "form",
      tags |-> << <<"s","w","i","t","c","h">>,
                  <<"t","o","g","g","l","e">>,
                  <<"b","o","o","l","e","a","n">>,
                  <<"o","n">>,
                  <<"o","f","f">> >> ],
    \* "slider" (line 276)
    [ key |-> <<"s","l","i","d","e","r">>,
      componentName |-> <<"s","l","i","d","e","r">>,
      displayName |-> <<"S","l","i","d","e","r">>,
      description |-> <<"A"," ","s","l","i","d","e","r"," ","i","n","p","u","t"," ","c","o","m","p","o","n","e","n","t"," ","f","o","r"," ","s","e","l","e","c","t","i","n","g"," ","v","a","l","u","e","s"," ","f","r","o","m"," ","a"," ","r","a","n","g","e">>,
      category |-> "form",
      tags |-> << <<"s","l","i","d","e","r">>,
                  <<"r","a","n","g","e">>,
                  <<"i","n","p","u","t">>,
                  <<"v","a","l","u","e">>,
                  <<"a","d","j","u","s","t">> >> ],
    \* "combobox" (line 286)
    [ key |-> <<"c","o","m","b","o","b","o","x">>,
      componentName |-> <<"c","o","m","b","o","b","o","x">>,
      displayName |-> <<"C","o","m","b","o","b","o","x">>,
      description |-> <<"A"," ","c","o","m","b","o","b","o","x"," ","c","o","m","p","o","n","e","n","t"," ","w","i","t","h"," ","s","e","a","r","c","h"," ","a","n","d"," ","a","u","t","o","c","o","m","p","l","e","t","e">>,
      category |-> "form",
      tags |-> << <<"c","o","m","b","o","b","o","x">>,
                  <<"a","u","t","o","c","o","m","p","l","e","t","e">>,
                  <<"s","e","a","r","c","h">>,
                  <<"s","e","l","e","c","t">>,
                  <<"d","r","o","p","d","o","w","n">> >> ],
    \* "toggle" (line 296)
    [ key |-> <<"t","o","g","g","l","e">>,
      componentName |-> <<"t","o","g","g","l","e">>,
      displayName |-> <<"T","o","g","g","l","e">>,
      description |-> <<"A"," ","t","o","g","g","l","e"," ","b","u","t","t","o","n"," ","c","o","m","p","o","n","e","n","t"," ","w","i","t","h"," ","p","r","e","s","s","e","d"," ","s","t","a","t","e">>,
      category |-> "form",
      tags |-> << <<"t","o","g","g","l","e">>,
                  <<"b","u","t","t","o","n">>,
                  <<"p","r","e","s","s","e","d">>,
                  <<"s","t","a","t","e">>,
                  <<"i","c","o","n">> >> ],
    \* "toggle-group" (line 306)
    [ key |-> <<"t","o","g","g","l","e","-","g","r","o","u","p">>,
      componentName |-> <<"t","o","g","g","l","e","-","g","r","o","u","p">>,
      displayName |-> <<"T","o","g","g","l","e"," ","G","r","o","u","p">>,
      description |-> <<"A"," ","g","r","o","u","p"," ","o","f"," ","t","o","g","g","l","e"," ","b","u","t","t","o","n","s"," ","f","o","r"," ","m","u","l","t","i","p","l","e"," ","o","r"," ","s","i","n","g","l","e"," ","s","e","l","e","c","t","i","o","n">>,
      category |-> "form",
      tags |-> << <<"t","o","g","g","l","e">>,
                  <<"g","r","o","u","p">>,
                  <<"b","u","t","t","o","n","s">>,
                  <<"s","e","l","e","c","t","i","o","n">>,
                  <<"m","u","l","t","i","p","l","e">> >> ],
    \* "input-otp" (line 316)
    [ key |-> <<"i","n","p","u","t","-","o","t","p">>,
      componentName |-> <<"i","n","p","u","t","-","o","t","p">>,
      displayName |-> <<"I","n","p","u","t"," ","O","T","P">>,
      description |-> <<"O","n","e","-","t","i","m","e"," ","p","a","s","s","w","o","r","d"," ","i","n","p","u","t"," ","c","o","m","p","o","n","e","n","t">>,
      category |-> "form",
      tags |-> << <<"o","t","p">>,
                  <<"p","a","s","s","w","o","r","d">>,
                  <<"v","e","r","i","f","i","c","a","t","i","o","n">>,
                  <<"c","o","d","e">>,
                  <<"s","e","c","u","r","i","t","y">> >> ],
    \* "collapsible" (line 328)
    [ key |-> <<"c","o","l","l","a","p","s","i","b","l","e">>,
      componentName |-> <<"c","o","l","l","a","p","s","i","b","l","e">>,
      displayName |-> <<"C","o","l","l","a","p","s","i","b","l","e">>,
      description |-> <<"A"," ","c","o","l","l","a","p","s","i","b","l","e"," ","c","o","n","t","a","i","n","e","r"," ","c","o","m","p","o","n","e","n","t">>,
      category |-> "layout",
      tags |-> << <<"c","o","l","l","a","p","s","i","b","l","e">>,
                  <<"c","o","l","l","a","p","s","e">>,
                  <<"e","x","p","a","n","d">>,
                  <<"t","o","g","g","l","e">>,
                  <<"c","o","n","t","e","n","t">> >> ],
    \* "resizable" (line 338)
    [ key |-> <<"r","e","s","i","z","a","b","l","e">>,
      componentName |-> <<"r","e","s","i","z","a","b","l","e">>,
      displayName |-> <<"R","e","s","i","z","a","b","l","e">>,
      description |-> <<"R","e","s","i","z","a","b","l","e"," ","p","a","n","e","l"," ","l","a","y","o","u","t"," ","c","o","m","p","o","n","e","n","t">>,
      category |-> "layout",
      tags |-> << <<"r","e","s","i","z","a","b","l","e">>,
                  <<"p","a","n","e","l">>,
                  <<"l","a","y","o","u","t">>,
                  <<"s","p","l","i","t">>,
                  <<"d","r","a","g">> >> ],
    \* "scroll-area" (line 348)
    [ key |-> <<"s","c","r","o","l","l","-","a","r","e","a">>,
      componentName |-> <<"s","c","r","o","l","l","-","a","r","e","a">>,
      displayName |-> <<"S","c","r","o","l","l"," ","A","r","e","a">>,
      description |-> <<"A"," ","c","u","s","t","o","m"," ","s","t","y","l","e","d"," ","s","c","r","o","l","l","a","b","l","e"," ","a","r","e","a">>,
      category |-> "layout",
      tags |-> << <<"s","c","r","o","l","l">>,
                  <<"o","v","e","r","f","l","o","w">>,
                  <<"s","c","r","o","l","l","b","a","r">>,
                  <<"c","o","n","t","e","n","t">>,
                  <<"a","r","e","a">> >> ],
    \* "aspect-ratio" (line 358)
    [ key |-> <<"a","s","p","e","c","t","-","r","a","t","i","o">>,
      componentName |-> <<"a","s","p","e","c","t","-","r","a","t","i","o">>,
      displayName |-> <<"A","s","p","e","c","t"," ","R","a","t","i","o">>,
      description |-> <<"A"," ","c","o","n","t","a","i","n","e","r"," ","t","h","a","t"," ","m","a","i","n","t","a","i","n","s"," ","a","s","p","e","c","t"," ","r","a","t","i","o">>,
      category |-> "layout",
      tags |-> << <<"a","s","p","e","c","t","-","r","a","t","i","o">>,
                  <<"r","e","s","p","o","n","s","i","v","e">>,
                  <<"i","m","a","g","e">>,
                  <<"v","i","d","e","o">>,
                  <<"r","a","t","i","o">> >> ],
    \* "navigation-menu" (line 370)
    [ key |-> <<"n","a","v","i","g","a","t","i","o","n","-","m","e","n","u">>,
      componentName |-> <<"n","a","v","i","g","a","t","i","o","n","-","m","e","n","u">>,
      displayName |-> <<"N","a","v","i","g","a","t","i","o","n"," ","M","e","n","u">>,
      description |-> <<"A"," ","c","o","m","p","l","e","x"," ","n","a","v","i","g","a","t","i","o","n"," ","m","e","n","u"," ","w","i","t","h"," ","d","r","o","p","d","o","w","n","s">>,
      category |-> "navigation",
      tags |-> << <<"n","a","v","i","g","a","t","i","o","n">>,
                  <<"m","e","n","u">>,
                  <<"d","r","o","p","d","o","w","n">>,
                  <<"n","a","v">>,
                  <<"h","e","a","d","e","r">> >> ],
    \* "menubar" (line 380)
    [ key |-> <<"m","e","n","u","b","a","r">>,
      componentName |-> <<"m","e","n","u","b","a","r">>,
      displayName |-> <<"M","e","n","u","b","a","r">>,
      description |-> <<"A"," ","m","e","n","u","b","a","r"," ","c","o","m","p","o","n","e","n","t"," ","l","i","k","e"," ","d","e","s","k","t","o","p"," ","a","p","p","l","i","c","a","t","i","o","n","s">>,
      category |-> "navigation",
      tags |-> << <<"m","e","n","u","b","a","r">>,
                  <<"m","e","n","u">>,
                  <<"d","e","s","k","t","o","p">>,
                  <<"n","a","v","i","g","a","t","i","o","n">>,
                  <<"t","o","o","l","b","a","r">> >> ],
    \* "command" (line 390)
    [ key |-> <<"c","o","m","m","a","n","d">>,
      componentName |-> <<"c","o","m","m","a","n","d">>,
      displayName |-> <<"C","o","m","m","a","n","d">>,
      description |-> <<"A"," ","c","o","m","m","a","n","d"," ","p","a","l","e","t","t","e"," ","c","o","m","p","o","n","e","n","t"," ","f","o","r"," ","k","e","y","b","o","a","r","d","-","f","i","r","s","t"," ","n","a","v","i","g","a","t","i","o","n">>,
      category |-> "navigation",
      tags |-> << <<"c","o","m","m","a","n","d">>,
                  <<"p","a","l","e","t","t","e">>,
                  <<"s","e","a","r","c","h">>,
                  <<"k","e","y","b","o","a","r","d">>,
                  <<"c","m","d","k">> >> ],
    \* "context-menu" (line 400)
    [ key |-> <<"c","o","n","t","e","x","t","-","m","e","n","u">>,
      componentName |-> <<"c","o","n","t","e","x","t","-","m","e","n","u">>,
      displayName |-> <<"C","o","n","t","e","x","t"," ","M","e","n","u">>,
      description |-> <<"A"," ","c","o","n","t","e","x","t"," ","m","e","n","u"," ","t","r","i","g","g","e","r","e","d"," ","b","y"," ","r","i","g","h","t","-","c","l","i","c","k">>,
      category |-> "navigation",
      tags |-> << <<"c","o","n","t","e","x","t","-","m","e","n","u">>,
                  <<"r","i","g","h","t","-","c","l","i","c","k">>,
                  <<"m","e","n","u">>,
                  <<"p","o","p","u","p">>,
                  <<"a","c","t","i","o","n","s">> >> ],
    \* "dropdown-menu" (line 410)
    [ key |-> <<"d","r","o","p","d","o","w","n","-","m","e","n","u">>,
      componentName |-> <<"d","r","o","p","d","o","w","n","-","m","e","n","u">>,
      displayName |-> <<"D","r","o","p","d","o","w","n"," ","M","e","n","u">>,
      description |-> <<"A"," ","d","r","o","p","d","o","w","n"," ","m","e","n","u"," ","c","o","m","p","o","n","e","n","t">>,
      category |-> "navigation",
      tags |-> << <<"d","r","o","p","d","o","w","n">>,
                  <<"m","e","n","u">>,
                  <<"a","c","t","i","o","n","s">>,
                  <<"p","o","p","u","p">>,
                  <<"s","e","l","e","c","t">> >> ],
    \* "pagination" (line 420)
    [ key |-> <<"p","a","g","i","n","a","t","i","o","n">>,
      componentName |-> <<"p","a","g","i","n","a","t","i","o","n">>,
      displayName |-> <<"P","a","g","i","n","a","t","i","o","n">>,
      description |-> <<"A"," ","p","a","g","i","n","a","t","i","o","n"," ","c","o","m","p","o","n","e","n","t"," ","f","o","r"," ","n","a","v","i","g","a","t","i","n","g"," ","p","a","g","e","s">>,
      category |-> "navigation",
      tags |-> << <<"p","a","g","i","n","a","t","i","o","n">>,
                  <<"p","a","g","e","s">>,
                  <<"n","a","v","i","g","a","t","i","o","n">>,
                  <<"n","e","x","t">>,
                  <<"p","r","e","v","i","o","u","s">> >> ],
    \* "calendar" (line 432)
    [ key |-> <<"c","a","l","e","n","d","a","r">>,
      componentName |-> <<"c","a","l","e","n","d","a","r">>,
      displayName |-> <<"C","a","l","e","n","d","a","r">>,
      description |-> <<"A"," ","c","a","l","e","n","d","a","r"," ","c","o","m","p","o","n","e","n","t"," ","f","o","r"," ","d","a","t","e"," ","s","e","l","e","c","t","i","o","n">>,
      category |-> "data",
      tags |-> << <<"c","a","l","e","n","d","a","r">>,
                  <<"d","a","t","e">>,
                  <<"p","i","c","k","e","r">>,
                  <<"s","c","h","e","d","u","l","e">>,
                  <<"t","i","m","e">> >> ],
    \* "date-picker" (line 442)
    [ key |-> <<"d","a","t","e","-","p","i","c","k","e","r">>,
      componentName |-> <<"d","a","t","e","-","p","i","c","k","e","r">>,
      displayName |-> <<"D","a","t","e"," ","P","i","c","k","e","r">>,
      description |-> <<"A"," ","d","a","t","e"," ","p","i","c","k","e","r"," ","c","o","m","p","o","n","e","n","t"," ","w","i","t","h"," ","c","a","l","e","n","d","a","r">>,
      category |-> "data",
      tags |-> << <<"d","a","t","e">>,
                  <<"p","i","c","k","e","r">>,
                  <<"c","a","l","e","n","d","a","r">>,
                  <<"i","n","p","u","t">>,
                  <<"s","e","l","e","c","t">> >> ],
    \* "hover-card" (line 452)
    [ key |-> <<"h","o","v","e","r","-","c","a","r","d">>,
      componentName |-> <<"h","o","v","e","r","-","c","a","r","d">>,
      displayName |-> <<"H","o","v","e","r"," ","C","a","r","d">>,
      description |-> <<"A"," ","c","a","r","d"," ","t","h","a","t"," ","a","p","p","e","a","r","s"," ","o","n"," ","h","o","v","e","r">>,
      category |-> "data",
      tags |-> << <<"h","o","v","e","r">>,
                  <<"c","a","r","d">>,
                  <<"t","o","o","l","t","i","p">>,
                  <<"p","o","p","u","p">>,
                  <<"p","r","e","v","i","e","w">> >> ],
    \* "carousel" (line 462)
    [ key |-> <<"c","a","r","o","u","s","e","l">>,
      componentName |-> <<"c","a","r","o","u","s","e","l">>,
      displayName |-> <<"C","a","r","o","u","s","e","l">>,
      description |-> <<"A"," ","c","a","r","o","u","s","e","l"," ","c","o","m","p","o","n","e","n","t"," ","f","o","r"," ","s","l","i","d","i","n","g"," ","c","o","n","t","e","n","t">>,
      category |-> "data",
      tags |-> << <<"c","a","r","o","u","s","e","l">>,
                  <<"s","l","i","d","e","r">>,
                  <<"i","m","a","g","e","s">>,
                  <<"g","a","l","l","e","r","y">>,
                  <<"s","l","i","d","e","s">> >> ],
    \* "tooltip" (line 472)
    [ key |-> <<"t","o","o","l","t","i","p">>,
      componentName |-> <<"t","o","o","l","t","i","p">>,
      displayName |-> <<"T","o","o","l","t","i","p">>,
      description |-> <<"A"," ","t","o","o","l","t","i","p"," ","c","o","m","p","o","n","e","n","t"," ","f","o","r"," ","h","o","v","e","r"," ","i","n","f","o","r","m","a","t","i","o","n">>,
      category |-> "data",
      tags |-> << <<"t","o","o","l","t","i","p">>,
                  <<"h","o","v","e","r">>,
                  <<"i","n","f","o">>,
                  <<"h","e","l","p">>,
                  <<"h","i","n","t">> >> ],
    \* "sonner" (line 484)
    [ key |-> <<"s","o","n","n","e","r">>,
      componentName |-> <<"s","o","n","n","e","r">>,
      displayName |-> <<"S","o","n","n","e","r">>,
      description |-> <<"A","n"," ","a","l","t","e","r","n","a","t","i","v","e"," ","t","o","a","s","t"," ","n","o","t","i","f","i","c","a","t","i","o","n"," ","c","o","m","p","o","n","e","n","t">>,
      category |-> "feedback",
      tags |-> << <<"t","o","a","s","t">>,
                  <<"n","o","t","i","f","i","c","a","t","i","o","n">>,
                  <<"s","o","n","n","e","r">>,
                  <<"a","l","e","r","t">>,
                  <<"m","e","s","s","a","g","e">> >> ],
    \* "ai-actions" (line 496)
    [ key |-> <<"a","i","-","a","c","t","i","o","n","s">>,
      componentName |-> <<"a","i","-","a","c","t","i","o","n","s">>,
      displayName |-> <<"A","I"," ","A","c","t","i","o","n","s">>,
      description |-> <<"I","n","t","e","r","a","c","t","i","v","e"," ","A","I"," ","a","c","t","i","o","n"," ","b","u","t","t","o","n","s"," ","f","o","r"," ","R","e","a","c","t"," ","c","h","a","t"," ","i","n","t","e","r","f","a","c","e","s"," ","w","i","t","h"," ","t","o","o","l","t","i","p","s"," ","a","n","d"," ","s","h","a","d","c","n","/","u","i"," ","s","t","y","l","i","n","g">>,
      category |-> "ai",
      tags |-> << <<"a","i">>,
                  <<"c","h","a","t">>,
                  <<"a","c","t","i","o","n","s">>,
                  <<"b","u","t","t","o","n","s">>,
                  <<"i","n","t","e","r","a","c","t","i","v","e">> >> ],
    \* "ai-branch" (line 509)
    [ key |-> <<"a","i","-","b","r","a","n","c","h">>,
      componentName |-> <<"a","i","-","b","r","a","n","c","h">>,
      displayName |-> <<"A","I"," ","B","r","a","n","c","h">>,
      description |-> <<"B","r","a","n","c","h"," ","b","e","t","w","e","e","n"," ","A","I"," ","r","e","s","p","o","n","s","e"," ","v","a","r","i","a","t","i","o","n","s"," ","l","i","k","e"," ","C","h","a","t","G","P","T"," ","f","o","r"," ","e","x","p","l","o","r","i","n","g"," ","m","u","l","t","i","p","l","e"," ","a","n","s","w","e","r","s">>,
      category |-> "ai",
      tags |-> << <<"a","i">>,
                  <<"b","r","a","n","c","h">>,
                  <<"v","a","r","i","a","t","i","o","n","s">>,
                  <<"c","h","a","t","g","p","t">>,
                  <<"r","e","s","p","o","n","s","e","s">> >> ],
    \* "ai-code-block" (line 522)
    [ key |-> <<"a","i","-","c","o","d","e","-","b","l","o","c","k">>,
      componentName |-> <<"a","i","-","c","o","d","e","-","b","l","o","c","k">>,
      displayName |-> <<"A","I"," ","C","o","d","e"," ","B","l","o","c","k">>,
      description |-> <<"S","y","n","t","a","x","-","h","i","g","h","l","i","g","h","t","e","d"," ","c","o","d","e"," ","b","l","o","c","k","s"," ","w","i","t","h"," ","c","o","p","y"," ","b","u","t","t","o","n","s"," ","f","o","r"," ","A","I"," ","r","e","s","p","o","n","s","e","s">>,
      category |-> "ai",
      tags |-> << <<"a","i">>,
                  <<"c","o","d","e">>,
                  <<"s","y","n","t","a","x">>,
                  <<"h","i","g","h","l","i","g","h","t">>,
                  <<"c","o","p","y">> >> ],
    \* "ai-conversation" (line 535)
    [ key |-> <<"a","i","-","c","o","n","v","e","r","s","a","t","i","o","n">>,
      componentName |-> <<"a","i","-","c","o","n","v","e","r","s","a","t","i","o","n">>,
      displayName |-> <<"A","I"," ","C","o","n","v","e","r","s","a","t","i","o","n">>,
      description |-> <<"A","u","t","o","-","s","c","r","o","l","l","i","n","g"," ","c","h","a","t"," ","c","o","n","t","a","i","n","e","r"," ","f","o","r"," ","s","m","o","o","t","h"," ","A","I"," ","c","o","n","v","e","r","s","a","t","i","o","n","s">>,
      category |-> "ai",
      tags |-> << <<"a","i">>,
                  <<"c","h","a","t">>,
                  <<"c","o","n","v","e","r","s","a","t","i","o","n">>,
                  <<"s","c","r","o","l","l">>,
                  <<"s","t","r","e","a","m","i","n","g">> >> ],
    \* "ai-image" (line 548)
    [ key |-> <<"a","i","-","i","m","a","g","e">>,
      componentName |-> <<"a","i","-","i","m","a","g","e">>,
      displayName |-> <<"A","I"," ","I","m","a","g","e">>,
      description |-> <<"D","i","s","p","l","a","y"," ","A","I","-","g","e","n","e","r","a","t","e","d"," ","i","m","a","g","e","s"," ","w","i","t","h"," ","l","o","a","d","i","n","g"," ","s","t","a","t","e","s"," ","a","n","d"," ","e","r","r","o","r"," ","h","a","n","d","l","i","n","g">>,
      category |-> "ai",
      tags |-> << <<"a","i">>,
                  <<"i","m","a","g","e">>,
                  <<"d","a","l","l","e">>,
                  <<"m","i","d","j","o","u","r","n","e","y">>,
                  <<"g","e","n","e","r","a","t","e","d">> >> ],
    \* "ai-inline-citation" (line 561)
    [ key |-> <<"a","i","-","i","n","l","i","n","e","-","c","i","t","a","t","i","o","n">>,
      componentName |-> <<"a","i","-","i","n","l","i","n","e","-","c","i","t","a","t","i","o","n">>,
      displayName |-> <<"A","I"," ","I","n","l","i","n","e"," ","C","i","t","a","t","i","o","n">>,
      description |-> <<"I","n","l","i","n","e"," ","c","i","t","a","t","i","o","n","s"," ","w","i","t","h"," ","h","o","v","e","r"," ","p","r","e","v","i","e","w","s"," ","l","i","k","e"," ","P","e","r","p","l","e","x","i","t","y"," ","A","I">>,
      category |-> "ai",
      tags |-> << <<"a","i">>,
                  <<"c","i","t","a","t","i","o","n">>,
                  <<"p","e","r","p","l","e","x","i","t","y">>,
                  <<"s","o","u","r","c","e","s">>,
                  <<"r","e","f","e","r","e","n","c","e","s">> >> ],
    \* "ai-loader" (line 574)
    [ key |-> <<"a","i","-","l","o","a","d","e","r">>,
      componentName |-> <<"a","i","-","l","o","a","d","e","r">>,
      displayName |-> <<"A","I"," ","L","o","a","d","e","r">>,
      description |-> <<"A","n","i","m","a","t","e","d"," ","l","o","a","d","e","r"," ","f","o","r"," ","A","I"," ","s","t","r","e","a","m","i","n","g"," ","r","e","s","p","o","n","s","e","s"," ","s","h","o","w","i","n","g"," ","A","I"," ","i","s"," ","t","h","i","n","k","i","n","g">>,
      category |-> "ai",
      tags |-> << <<"a","i">>,
                  <<"l","o","a","d","e","r">>,
                  <<"s","t","r","e","a","m","i","n","g">>,
                  <<"t","h","i","n","k","i","n","g">>,
                  <<"a","n","i","m","a","t","i","o","n">> >> ],
    \* "ai-message" (line 587)
    [ key |-> <<"a","i","-","m","e","s","s","a","g","e">>,
      componentName |-> <<"a","i","-","m","e","s","s","a","g","e">>,
      displayName |-> <<"A","I"," ","M","e","s","s","a","g","e">>,
      description |-> <<"C","h","a","t"," ","m","e","s","s","a","g","e","s"," ","w","i","t","h"," ","a","v","a","t","a","r","s"," ","d","i","s","t","i","n","g","u","i","s","h","i","n","g"," ","u","s","e","r"," ","f","r","o","m"," ","A","I">>,
      category |-> "ai",
      tags |-> << <<"a","i">>,
                  <<"m","e","s","s","a","g","e">>,
                  <<"c","h","a","t">>,
                  <<"a","v","a","t","a","r">>,
                  <<"c","o","n","v","e","r","s","a","t","i","o","n">> >> ],
    \* "ai-prompt-input" (line 600)
    [ key |-> <<"a","i","-","p","r","o","m","p","t","-","i","n","p","u","t">>,
      componentName |-> <<"a","i","-","p","r","o","m","p","t","-","i","n","p","u","t">>,
      displayName |-> <<"A","I"," ","P","r","o","m","p","t"," ","I","n","p","u","t">>,
      description |-> <<"C","h","a","t","G","P","T","-","s","t","y","l","e"," ","i","n","p","u","t"," ","w","i","t","h"," ","a","u","t","o","-","r","e","s","i","z","e"," ","a","n","d"," ","m","o","d","e","l"," ","s","e","l","e","c","t","o","r">>,
      category |-> "ai",
      tags |-> << <<"a","i">>,
                  <<"i","n","p","u","t">>,
                  <<"p","r","o","m","p","t">>,
                  <<"c","h","a","t","g","p","t">>,
                  <<"t","e","x","t","a","r","e","a">> >> ],
    \* "ai-reasoning" (line 613)
    [ key |-> <<"a","i","-","r","e","a","s","o","n","i","n","g">>,
      componentName |-> <<"a","i","-","r","e","a","s","o","n","i","n","g">>,
      displayName |-> <<"A","I"," ","R","e","a","s","o","n","i","n","g">>,
      description |-> <<"S","h","o","w"," ","A","I"," ","t","h","i","n","k","i","n","g"," ","p","r","o","c","e","s","s"," ","l","i","k","e"," ","C","l","a","u","d","e","'","s"," ","t","h","i","n","k","i","n","g"," ","b","l","o","c","k","s">>,
      category |-> "ai",
      tags |-> << <<"a","i">>,
                  <<"r","e","a","s","o","n","i","n","g">>,
                  <<"t","h","i","n","k","i","n","g">>,
                  <<"c","l","a","u","d","e">>,
                  <<"p","r","o","c","e","s","s">> >> ],
    \* "ai-response" (line 626)
    [ key |-> <<"a","i","-","r","e","s","p","o","n","s","e">>,
      componentName |-> <<"a","i","-","r","e","s","p","o","n","s","e">>,
      displayName |-> <<"A","I"," ","R","e","s","p","o","n","s","e">>,
      description |-> <<"M","a","r","k","d","o","w","n"," ","r","e","n","d","e","r","e","r"," ","o","p","t","i","m","i","z","e","d"," ","f","o","r"," ","s","t","r","e","a","m","i","n","g"," ","A","I"," ","r","e","s","p","o","n","s","e","s">>,
      category |-> "ai",
      tags |-> << <<"a","i">>,
                  <<"r","e","s","p","o","n","s","e">>,
                  <<"m","a","r","k","d","o","w","n">>,
                  <<"s","t","r","e","a","m","i","n","g">>,
                  <<"r","e","n","d","e","r">> >> ],
    \* "ai-sources" (line 639)
    [ key |-> <<"a","i","-","s","o","u","r","c","e","s">>,
      componentName |-> <<"a","i","-","s","o","u","r","c","e","s">>,
      displayName |-> <<"A","I"," ","S","o","u","r","c","e","s">>,
      description |-> <<"E","x","p","a","n","d","a","b","l","e"," ","s","o","u","r","c","e"," ","c","i","t","a","t","i","o","n","s"," ","l","i","k","e"," ","P","e","r","p","l","e","x","i","t","y","'","s"," ","u","s","e","d"," ","s","o","u","r","c","e","s">>,
      category |-> "ai",
      tags |-> << <<"a","i">>,
                  <<"s","o","u","r","c","e","s">>,
                  <<"c","i","t","a","t","i","o","n","s">>,
                  <<"p","e","r","p","l","e","x","i","t","y">>,
                  <<"r","e","f","e","r","e","n","c","e","s">> >> ],
    \* "ai-suggestion" (line 652)
    [ key |-> <<"a","i","-","s","u","g","g","e","s","t","i","o","n">>,
      componentName |-> <<"a","i","-","s","u","g","g","e","s","t","i","o","n">>,
      displayName |-> <<"A","I"," ","S","u","g","g","e","s","t","i","o","n">>,
      description |-> <<"S","u","g","g","e","s","t","i","o","n"," ","c","h","i","p","s"," ","l","i","k","e"," ","C","h","a","t","G","P","T","'","s"," ","f","o","l","l","o","w","-","u","p"," ","p","r","o","m","p","t","s">>,
      category |-> "ai",
      tags |-> << <<"a","i">>,
                  <<"s","u","g","g","e","s","t","i","o","n","s">>,
                  <<"c","h","i","p","s">>,
                  <<"c","h","a","t","g","p","t">>,
                  <<"p","r","o","m","p","t","s">> >> ],
    \* "ai-task" (line 665)
    [ key |-> <<"a","i","-","t","a","s","k">>,
      componentName |-> <<"a","i","-","t","a","s","k">>,
      displayName |-> <<"A","I"," ","T","a","s","k">>,
      description |-> <<"T","a","s","k"," ","l","i","s","t","s"," ","s","h","o","w","i","n","g"," ","A","I","'","s"," ","w","o","r","k"," ","p","r","o","g","r","e","s","s"," ","l","i","k","e"," ","C","l","a","u","d","e"," ","A","r","t","i","f","a","c","t","s">>,
      category |-> "ai",
      tags |-> << <<"a","i">>,
                  <<"t","a","s","k">>,
                  <<"p","r","o","g","r","e","s","s">>,
                  <<"c","l","a","u","d","e">>,
                  <<"a","r","t","i","f","a","c","t","s">> >> ],
    \* "ai-tool" (line 678)
    [ key |-> <<"a","i","-","t","o","o","l">>,
      componentName |-> <<"a","i","-","t","o","o","l">>,
      displayName |-> <<"A","I"," ","T","o","o","l">>,
      description |-> <<"D","i","s","p","l","a","y"," ","A","I"," ","f","u","n","c","t","i","o","n"," ","c","a","l","l","s"," ","l","i","k","e"," ","O","p","e","n","A","I","'","s"," ","t","o","o","l"," ","u","s","e">>,
      category |-> "ai",
      tags |-> << <<"a","i">>,
                  <<"t","o","o","l">>,
                  <<"f","u","n","c","t","i","o","n">>,
                  <<"o","p","e","n","a","i">>,
                  <<"c","a","l","l","s">> >> ],
    \* "ai-web-preview" (line 691)
    [ key |-> <<"a","i","-","w","e","b","-","p","r","e","v","i","e","w">>,
      componentName |-> <<"a","i","-","w","e","b","-","p","r","e","v","i","e","w">>,
      displayName |-> <<"A","I"," ","W","e","b"," ","P","r","e","v","i","e","w">>,
      description |-> <<"P","r","e","v","i","e","w"," ","A","I","-","g","e","n","e","r","a","t","e","d"," ","w","e","b","s","i","t","e","s"," ","l","i","k","e"," ","v","0",".","d","e","v","'","s"," ","l","i","v","e"," ","v","i","e","w","e","r">>,
      category |-> "ai",
      tags |-> << <<"a","i">>,
                  <<"p","r","e","v","i","e","w">>,
                  <<"w","e","b","s","i","t","e">>,
                  <<"v","0">>,
                  <<"i","f","r","a","m","e">> >> ],
    \* "glow-button" (line 706)
    [ key |-> <<"g","l","o","w","-","b","u","t","t","o","n">>,
      componentName |-> <<"g","l","o","w","-","b","u","t","t","o","n">>,
      displayName |-> <<"G","l","o","w"," ","B","u","t","t","o","n">>,
      description |-> <<"B","u","t","t","o","n"," ","w","i","t","h"," ","a","n","i","m","a","t","e","d"," ","g","l","o","w"," ","e","f","f","e","c","t"," ","a","n","d"," ","n","e","o","n"," ","s","t","y","l","i","n","g">>,
      category |-> "advanced-button",
      tags |-> << <<"b","u","t","t","o","n">>,
                  <<"g","l","o","w">>,
                  <<"n","e","o","n">>,
                  <<"a","n","i","m","a","t","e","d">>,
                  <<"e","f","f","e","c","t">> >> ],
    \* "shimmer-button" (line 718)
    [ key |-> <<"s","h","i","m","m","e","r","-","b","u","t","t","o","n">>,
      componentName |-> <<"s","h","i","m","m","e","r","-","b","u","t","t","o","n">>,
      displayName |-> <<"S","h","i","m","m","e","r"," ","B","u","t","t","o","n">>,
      description |-> <<"B","u","t","t","o","n"," ","w","i","t","h"," ","s","h","i","m","m","e","r"," ","a","n","i","m","a","t","i","o","n"," ","e","f","f","e","c","t">>,
      category |-> "advanced-button",
      tags |-> << <<"b","u","t","t","o","n">>,
                  <<"s","h","i","m","m","e","r">>,
                  <<"s","h","i","n","e">>,
                  <<"a","n","i","m","a","t","e","d">>,
                  <<"e","f","f","e","c","t">> >> ],
    \* "magnetic-button" (line 730)
    [ key |-> <<"m","a","g","n","e","t","i","c","-","b","u","t","t","o","n">>,
      componentName |-> <<"m","a","g","n","e","t","i","c","-","b","u","t","t","o","n">>,
      displayName |-> <<"M","a","g","n","e","t","i","c"," ","B","u","t","t","o","n">>,
      description |-> <<"B","u","t","t","o","n"," ","w","i","t","h"," ","m","a","g","n","e","t","i","c"," ","h","o","v","e","r"," ","e","f","f","e","c","t"," ","t","h","a","t"," ","f","o","l","l","o","w","s"," ","c","u","r","s","o","r">>,
      category |-> "advanced-button",
      tags |-> << <<"b","u","t","t","o","n">>,
                  <<"m","a","g","n","e","t","i","c">>,
                  <<"h","o","v","e","r">>,
                  <<"c","u","r","s","o","r">>,
                  <<"i","n","t","e","r","a","c","t","i","v","e">> >> ],
    \* "pulse-button" (line 742)
    [ key |-> <<"p","u","l","s","e","-","b","u","t","t","o","n">>,
      componentName |-> <<"p","u","l","s","e","-","b","u","t","t","o","n">>,
      displayName |-> <<"P","u","l","s","e"," ","B","u","t","t","o","n">>,
      description |-> <<"B","u","t","t","o","n"," ","w","i","t","h"," ","p","u","l","s","i","n","g"," ","a","n","i","m","a","t","i","o","n"," ","e","f","f","e","c","t">>,
      category |-> "advanced-button",
      tags |-> << <<"b","u","t","t","o","n">>,
                  <<"p","u","l","s","e">>,
                  <<"a","n","i","m","a","t","i","o","n">>,
                  <<"h","e","a","r","t","b","e","a","t">>,
                  <<"e","f","f","e","c","t">> >> ],
    \* "gradient-button" (line 754)
    [ key |-> <<"g","r","a","d","i","e","n","t","-","b","u","t","t","o","n">>,
      componentName |-> <<"g","r","a","d","i","e","n","t","-","b","u","t","t","o","n">>,
      displayName |-> <<"G","r","a","d","i","e","n","t"," ","B","u","t","t","o","n">>,
      description |-> <<"B","u","t","t","o","n"," ","w","i","t","h"," ","a","n","i","m","a","t","e","d"," ","g","r","a","d","i","e","n","t"," ","b","a","c","k","g","r","o","u","n","d">>,
      category |-> "advanced-button",
      tags |-> << <<"b","u","t","t","o","n">>,
                  <<"g","r","a","d","i","e","n","t">>,
                  <<"c","o","l","o","r","f","u","l">>,
                  <<"a","n","i","m","a","t","e","d">>,
                  <<"b","a","c","k","g","r","o","u","n","d">> >> ],
    \* "neon-button" (line 766)
    [ key |-> <<"n","e","o","n","-","b","u","t","t","o","n">>,
      componentName |-> <<"n","e","o","n","-","b","u","t","t","o","n">>,
      displayName |-> <<"N","e","o","n"," ","B","u","t","t","o","n">>,
      description |-> <<"B","u","t","t","o","n"," ","w","i","t","h"," ","n","e","o","n"," ","g","l","o","w"," ","e","f","f","e","c","t">>,
      category |-> "advanced-button",
      tags |-> << <<"b","u","t","t","o","n">>,
                  <<"n","e","o","n">>,
                  <<"g","l","o","w">>,
                  <<"c","y","b","e","r","p","u","n","k">>,
                  <<"e","f","f","e","c","t">> >> ],
    \* "shine-button" (line 778)
    [ key |-> <<"s","h","i","n","e","-","b","u","t","t","o","n">>,
      componentName |-> <<"s","h","i","n","e","-","b","u","t","t","o","n">>,
      displayName |-> <<"S","h","i","n","e"," ","B","u","t","t","o","n">>,
      description |-> <<"B","u","t","t","o","n"," ","w","i","t","h"," ","s","h","i","n","e"," ","s","w","e","e","p"," ","a","n","i","m","a","t","i","o","n">>,
      category |-> "advanced-button",
      tags |-> << <<"b","u","t","t","o","n">>,
                  <<"s","h","i","n","e">>,
                  <<"s","w","e","e","p">>,
                  <<"a","n","i","m","a","t","e","d">>,
                  <<"e","f","f","e","c","t">> >> ],
    \* "copy-button" (line 790)
    [ key |-> <<"c","o","p","y","-","b","u","t","t","o","n">>,
      componentName |-> <<"c","o","p","y","-","b","u","t","t","o","n">>,
      displayName |-> <<"C","o","p","y"," ","B","u","t","t","o","n">>,
      description |-> <<"B","u","t","t","o","n"," ","f","o","r"," ","c","o","p","y","i","n","g"," ","t","o"," ","c","l","i","p","b","o","a","r","d"," ","w","i","t","h"," ","v","i","s","u","a","l"," ","f","e","e","d","b","a","c","k">>,
      category |-> "advanced-button",
      tags |-> << <<"b","u","t","t","o","n">>,
                  <<"c","o","p","y">>,
                  <<"c","l","i","p","b","o","a","r","d">>,
                  <<"f","e","e","d","b","a","c","k">>,
                  <<"u","t","i","l","i","t","y">> >> ],
    \* "expanding-button" (line 802)
    [ key |-> <<"e","x","p","a","n","d","i","n","g","-","b","u","t","t","o","n">>,
      componentName |-> <<"e","x","p","a","n","d","i","n","g","-","b","u","t","t","o","n">>,
      displayName |-> <<"E","x","p","a","n","d","i","n","g"," ","B","u","t","t","o","n">>,
      description |-> <<"B","u","t","t","o","n"," ","t","h","a","t"," ","e","x","p","a","n","d","s"," ","o","n"," ","h","o","v","e","r">>,
      category |-> "advanced-button",
      tags |-> << <<"b","u","t","t","o","n">>,
                  <<"e","x","p","a","n","d">>,
                  <<"h","o","v","e","r">>,
                  <<"a","n","i","m","a","t","e","d">>,
                  <<"g","r","o","w","t","h">> >> ],
    \* "tilt-button" (line 814)
    [ key |-> <<"t","i","l","t","-","b","u","t","t","o","n">>,
      componentName |-> <<"t","i","l","t","-","b","u","t","t","o","n">>,
      displayName |-> <<"T","i","l","t"," ","B","u","t","t","o","n">>,
      description |-> <<"B","u","t","t","o","n"," ","w","i","t","h"," ","3","D"," ","t","i","l","t"," ","e","f","f","e","c","t"," ","o","n"," ","h","o","v","e","r">>,
      category |-> "advanced-button",
      tags |-> << <<"b","u","t","t","o","n">>,
                  <<"t","i","l","t">>,
                  <<"3","d">>,
                  <<"h","o","v","e","r">>,
                  <<"p","e","r","s","p","e","c","t","i","v","e">> >> ],
    \* "gradient-text" (line 828)
    [ key |-> <<"g","r","a","d","i","e","n","t","-","t","e","x","t">>,
      componentName |-> <<"g","r","a","d","i","e","n","t","-","t","e","x","t">>,
      displayName |-> <<"G","r","a","d","i","e","n","t"," ","T","e","x","t">>,
      description |-> <<"T","e","x","t"," ","w","i","t","h"," ","s","m","o","o","t","h"," ","f","l","o","w","i","n","g"," ","g","r","a","d","i","e","n","t"," ","c","o","l","o","r","s">>,
      category |-> "text",
      tags |-> << <<"t","e","x","t">>,
                  <<"g","r","a","d","i","e","n","t">>,
                  <<"a","n","i","m","a","t","e","d">>,
                  <<"c","o","l","o","r","f","u","l">>,
                  <<"t","y","p","o","g","r","a","p","h","y">> >> ],
    \* "typing-text" (line 840)
    [ key |-> <<"t","y","p","i","n","g","-","t","e","x","t">>,
      componentName |-> <<"t","y","p","i","n","g","-","t","e","x","t">>,
      displayName |-> <<"T","y","p","i","n","g"," ","T","e","x","t">>,
      description |-> <<"T","y","p","e","w","r","i","t","e","r"," ","e","f","f","e","c","t"," ","w","i","t","h"," ","r","e","a","l","i","s","t","i","c"," ","t","y","p","i","n","g"," ","a","n","i","m","a","t","i","o","n">>,
      category |-> "text",
      tags |-> << <<"t","e","x","t">>,
                  <<"t","y","p","i","n","g">>,
                  <<"t","y","p","e","w","r","i","t","e","r">>,
                  <<"a","n","i","m","a","t","e","d">>,
                  <<"e","f","f","e","c","t">> >> ],
    \* "shimmering-text" (line 852)
    [ key |-> <<"s","h","i","m","m","e","r","i","n","g","-","t","e","x","t">>,
      componentName |-> <<"s","h","i","m","m","e","r","i","n","g","-","t","e","x","t">>,
      displayName |-> <<"S","h","i","m","m","e","r","i","n","g"," ","T","e","x","t">>,
      description |-> <<"T","e","x","t"," ","w","i","t","h"," ","s","m","o","o","t","h"," ","s","h","i","m","m","e","r"," ","w","a","v","e"," ","a","n","i","m","a","t","i","o","n">>,
      category |-> "text",
      tags |-> << <<"t","e","x","t">>,
                  <<"s","h","i","m","m","e","r">>,
                  <<"w","a","v","e">>,
                  <<"a","n","i","m","a","t","e","d">>,
                  <<"e","f","f","e","c","t">> >> ],
    \* "counting-number" (line 864)
    [ key |-> <<"c","o","u","n","t","i","n","g","-","n","u","m","b","e","r">>,
      componentName |-> <<"c","o","u","n","t","i","n","g","-","n","u","m","b","e","r">>,
      displayName |-> <<"C","o","u","n","t","i","n","g"," ","N","u","m","b","e","r">>,
      description |-> <<"A","n","i","m","a","t","e","d"," ","c","o","u","n","t","i","n","g"," ","n","u","m","b","e","r"," ","w","i","t","h"," ","s","p","r","i","n","g"," ","a","n","i","m","a","t","i","o","n","s">>,
      category |-> "text",
      tags |-> << <<"t","e","x","t">>,
                  <<"n","u","m","b","e","r">>,
                  <<"c","o","u","n","t","i","n","g">>,
                  <<"a","n","i","m","a","t","e","d">>,
                  <<"s","p","r","i","n","g">> >> ],
    \* "sliding-number" (line 876)
    [ key |-> <<"s","l","i","d","i","n","g","-","n","u","m","b","e","r">>,
      componentName |-> <<"s","l","i","d","i","n","g","-","n","u","m","b","e","r">>,
      displayName |-> <<"S","l","i","d","i","n","g"," ","N","u","m","b","e","r">>,
      description |-> <<"N","u","m","b","e","r"," ","w","i","t","h"," ","d","i","g","i","t","-","b","y","-","d","i","g","i","t"," ","s","l","i","d","i","n","g"," ","a","n","i","m","a","t","i","o","n","s">>,
      category |-> "text",
      tags |-> << <<"t","e","x","t">>,
                  <<"n","u","m","b","e","r">>,
                  <<"s","l","i","d","i","n","g">>,
                  <<"a","n","i","m","a","t","e","d">>,
                  <<"c","o","u","n","t","e","r">> >> ],
    \* "rolling-text" (line 888)
    [ key |-> <<"r","o","l","l","i","n","g","-","t","e","x","t">>,
      componentName |-> <<"r","o","l","l","i","n","g","-","t","e","x","t">>,
      displayName |-> <<"R","o","l","l","i","n","g"," ","T","e","x","t">>,
      description |-> <<"3","D"," ","r","o","l","l","i","n","g"," ","t","e","x","t"," ","w","i","t","h"," ","c","h","a","r","a","c","t","e","r"," ","r","e","v","e","a","l","s">>,
      category |-> "text",
      tags |-> << <<"t","e","x","t">>,
                  <<"r","o","l","l","i","n","g">>,
                  <<"3","d">>,
                  <<"a","n","i","m","a","t","e","d">>,
                  <<"r","e","v","e","a","l">> >> ],
    \* "rotating-text" (line 900)
    [ key |-> <<"r","o","t","a","t","i","n","g","-","t","e","x","t">>,
      componentName |-> <<"r","o","t","a","t","i","n","g","-","t","e","x","t">>,
      displayName |-> <<"R","o","t","a","t","i","n","g"," ","T","e","x","t">>,
      description |-> <<"T","e","x","t"," ","w","i","t","h"," ","s","m","o","o","t","h"," ","v","e","r","t","i","c","a","l"," ","r","o","t","a","t","i","o","n"," ","t","r","a","n","s","i","t","i","o","n","s">>,
      category |-> "text",
      tags |-> << <<"t","e","x","t">>,
                  <<"r","o","t","a","t","i","n","g">>,
                  <<"a","n","i","m","a","t","e","d">>,
                  <<"t","r","a","n","s","i","t","i","o","n">>,
                  <<"c","y","c","l","e">> >> ],
    \* "splitting-text" (line 912)
    [ key |-> <<"s","p","l","i","t","t","i","n","g","-","t","e","x","t">>,
      componentName |-> <<"s","p","l","i","t","t","i","n","g","-","t","e","x","t">>,
      displayName |-> <<"S","p","l","i","t","t","i","n","g"," ","T","e","x","t">>,
      description |-> <<"T","e","x","t"," ","w","i","t","h"," ","s","t","a","g","g","e","r","e","d"," ","c","h","a","r","a","c","t","e","r",","," ","w","o","r","d",","," ","o","r"," ","l","i","n","e"," ","r","e","v","e","a","l","s">>,
      category |-> "text",
      tags |-> << <<"t","e","x","t">>,
                  <<"s","p","l","i","t","t","i","n","g">>,
                  <<"s","t","a","g","g","e","r">>,
                  <<"a","n","i","m","a","t","e","d">>,
                  <<"r","e","v","e","a","l">> >> ],
    \* "highlight-text" (line 924)
    [ key |-> <<"h","i","g","h","l","i","g","h","t","-","t","e","x","t">>,
      componentName |-> <<"h","i","g","h","l","i","g","h","t","-","t","e","x","t">>,
      displayName |-> <<"H","i","g","h","l","i","g","h","t"," ","T","e","x","t">>,
      description |-> <<"T","e","x","t"," ","w","i","t","h"," ","s","m","o","o","t","h"," ","e","x","p","a","n","d","i","n","g"," ","b","a","c","k","g","r","o","u","n","d"," ","h","i","g","h","l","i","g","h","t","s">>,
      category |-> "text",
      tags |-> << <<"t","e","x","t">>,
                  <<"h","i","g","h","l","i","g","h","t">>,
                  <<"b","a","c","k","g","r","o","u","n","d">>,
                  <<"a","n","i","m","a","t","e","d">>,
                  <<"e","m","p","h","a","s","i","s">> >> ],
    \* "writing-text" (line 936)
    [ key |-> <<"w","r","i","t","i","n","g","-","t","e","x","t">>,
      componentName |-> <<"w","r","i","t","i","n","g","-","t","e","x","t">>,
      displayName |-> <<"W","r","i","t","i","n","g"," ","T","e","x","t">>,
      description |-> <<"T","e","x","t"," ","w","i","t","h"," ","w","o","r","d","-","b","y","-","w","o","r","d"," ","r","e","v","e","a","l"," ","a","n","i","m","a","t","i","o","n">>,
      category |-> "text",
      tags |-> << <<"t","e","x","t">>,
                  <<"w","r","i","t","i","n","g">>,
                  <<"r","e","v","e","a","l">>,
                  <<"a","n","i","m","a","t","e","d">>,
                  <<"p","r","o","g","r","e","s","s","i","v","e">> >> ]
  >>

aliases ==
  <<
    << <<"b","t","n">>,
       <<"b","u","t","t","o","n">> >>,
    << <<"t","e","x","t">>,
       <<"i","n","p","u","t">> >>,
    << <<"t","e","x","t","f","i","e","l","d">>,
       <<"i","n","p","u","t">> >>,
    << <<"t","e","x","t"," ","a","r","e","a">>,
       <<"t","e","x","t","a","r","e","a">> >>,
    << <<"t","e","x","t","-","a","r","e","a">>,
       <<"t","e","x","t","a","r","e","a">> >>,
    << <<"d","r","o","p","d","o","w","n">>,
       <<"s","e","l","e","c","t">> >>,
    << <<"c","h","e","c","k">>,
       <<"c","h","e","c","k","b","o","x">> >>,
    << <<"c","h","e","c","k"," ","b","o","x">>,
       <<"c","h","e","c","k","b","o","x">> >>,
    << <<"r","a","d","i","o"," ","b","u","t","t","o","n">>,
       <<"r","a","d","i","o","-","g","r","o","u","p">> >>,
    << <<"r","a","d","i","o","b","u","t","t","o","n">>,
       <<"r","a","d","i","o","-","g","r","o","u","p">> >>,
    << <<"c","o","n","t","a","i","n","e","r">>,
       <<"c","a","r","d">> >>,
    << <<"p","a","n","e","l">>,
       <<"c","a","r","d">> >>,
    << <<"b","o","x">>,
       <<"c","a","r","d">> >>,
    << <<"d","r","a","w","e","r">>,
       <<"s","h","e","e","t">> >>,
    << <<"s","i","d","e","b","a","r">>,
       <<"s","h","e","e","t">> >>,
    << <<"m","o","d","a","l">>,
       <<"d","i","a","l","o","g">> >>,
    << <<"t","o","o","l","t","i","p">>,
       <<"p","o","p","o","v","e","r">> >>,
    << <<"m","e","n","u">>,
       <<"t","a","b","s">> >>,
    << <<"n","a","v">>,
       <<"t","a","b","s">> >>,
    << <<"c","o","l","l","a","p","s","e">>,
       <<"a","c","c","o","r","d","i","o","n">> >>,
    << <<"e","x","p","a","n","d">>,
       <<"a","c","c","o","r","d","i","o","n">> >>,
    << <<"n","a","v","i","g","a","t","i","o","n">>,
       <<"b","r","e","a","d","c","r","u","m","b">> >>,
    << <<"p","a","t","h">>,
       <<"b","r","e","a","d","c","r","u","m","b">> >>,
    << <<"d","a","t","a">>,
       <<"t","a","b","l","e">> >>,
    << <<"g","r","i","d">>,
       <<"t","a","b","l","e">> >>,
    << <<"l","a","b","e","l">>,
       <<"b","a","d","g","e">> >>,
    << <<"t","a","g">>,
       <<"b","a","d","g","e">> >>,
    << <<"s","t","a","t","u","s">>,
       <<"b","a","d","g","e">> >>,
    << <<"p","r","o","f","i","l","e">>,
       <<"a","v","a","t","a","r">> >>,
    << <<"u","s","e","r">>,
       <<"a","v","a","t","a","r">> >>,
    << <<"i","m","a","g","e">>,
       <<"a","v","a","t","a","r">> >>,
    << <<"l","o","a","d","i","n","g">>,
       <<"p","r","o","g","r","e","s","s">> >>,
    << <<"p","e","r","c","e","n","t">>,
       <<"p","r","o","g","r","e","s","s">> >>,
    << <<"b","a","r">>,
       <<"p","r","o","g","r","e","s","s">> >>,
    << <<"w","a","i","t">>,
       <<"s","k","e","l","e","t","o","n">> >>,
    << <<"p","l","a","c","e","h","o","l","d","e","r">>,
       <<"s","k","e","l","e","t","o","n">> >>,
    << <<"s","h","i","m","m","e","r">>,
       <<"s","k","e","l","e","t","o","n">> >>,
    << <<"n","o","t","i","f","i","c","a","t","i","o","n">>,
       <<"a","l","e","r","t">> >>,
    << <<"m","e","s","s","a","g","e">>,
       <<"a","l","e","r","t">> >>,
    << <<"w","a","r","n","i","n","g">>,
       <<"a","l","e","r","t">> >>,
    << <<"i","n","f","o">>,
       <<"a","l","e","r","t">> >>,
    << <<"p","o","p","u","p">>,
       <<"t","o","a","s","t">> >>,
    << <<"t","e","m","p","o","r","a","r","y">>,
       <<"t","o","a","s","t">> >>,
    << <<"d","i","v","i","d","e","r">>,
       <<"s","e","p","a","r","a","t","o","r">> >>,
    << <<"l","i","n","e">>,
       <<"s","e","p","a","r","a","t","o","r">> >>,
    << <<"b","o","r","d","e","r">>,
       <<"s","e","p","a","r","a","t","o","r">> >>
  >>

Indices == 1..Len(COMPONENT_LIBRARY)

Keys == { COMPONENT_LIBRARY[i].key : i \in Indices }

(***************************************************************************)
(* COMPONENT_LIBRARY and aliases are plain object literals, so a property  *)
(* read also finds the members inherited from Object.prototype.            *)
(***************************************************************************)
ObjectPrototypeNames ==
  { <<"c","o","n","s","t","r","u","c","t","o","r">>,
    <<"_","_","p","r","o","t","o","_","_">>,
    <<"t","o","S","t","r","i","n","g">>,
    <<"v","a","l","u","e","O","f">>,
    <<"h","a","s","O","w","n","P","r","o","p","e","r","t","y">> }

(***************************************************************************)
(* JavaScript values a lookup can yield.                                   *)
(***************************************************************************)
Component(i) == [type |-> "component", index |-> i]
JSNull == [type |-> "null", index |-> 0]
JSUndefined == [type |-> "undefined", index |-> 0]
Inherited == [type |-> "inherited", index |-> 0]

Truthy(v) == v.type \in {"component", "inherited"}

(***************************************************************************)
(* String operations.                                                      *)
(***************************************************************************)
UpperCaseLetters ==
  <<"A","B","C","D","E","F","G","H","I","J","K","L","M",
    "N","O","P","Q","R","S","T","U","V","W","X","Y","Z">>

LowerCaseLetters ==
  <<"a","b","c","d","e","f","g","h","i","j","k","l","m",
    "n","o","p","q","r","s","t","u","v","w","x","y","z">>

WhiteSpace == {" ", "\t"}

LowerChar(c) ==
  IF \E i \in 1..26 : UpperCaseLetters[i] = c
    THEN LowerCaseLetters[CHOOSE i \in 1..26 : UpperCaseLetters[i] = c]
    ELSE c

\* the sequence f with every element computed (TLC would otherwise compute
\* f[i] again at each use)
Tabulate(f) == SubSeq(f, 1, Len(f))

toLowerCase(s) == Tabulate([i \in 1..Len(s) |-> LowerChar(s[i])])

trim(s) ==
  LET keep == { i \in 1..Len(s) : s[i] \notin WhiteSpace }
      first == CHOOSE i \in keep : \A j \in keep : i <= j
      last == CHOOSE i \in keep : \A j \in keep : j <= i
  IN IF keep = {} THEN <<>> ELSE SubSeq(s, first, last)

includes(s, q) ==
  \E i \in 0..(Len(s) - Len(q)) : SubSeq(s, i + 1, i + Len(q)) = q

startsWith(s, q) ==
  Len(q) <= Len(s) /\ SubSeq(s, 1, Len(q)) = q

RECURSIVE SplitRec(_, _, _, _)
SplitRec(s, i, cur, acc) ==
  IF i > Len(s) THEN Append(acc, cur)
  ELSE IF s[i] \in WhiteSpace
    THEN IF i > 1 /\ s[i - 1] \in WhiteSpace
           THEN SplitRec(s, i + 1, cur, acc)
           ELSE SplitRec(s, i + 1, <<>>, Append(acc, cur))
    ELSE SplitRec(s, i + 1, Append(cur, s[i]), acc)

\* s.split(/\s+/)
split(s) == SplitRec(s, 1, <<>>, <<>>)

\* every q with s.includes(q): the substrings of s, the empty one too
Substrings(s) ==
  { SubSeq(s, r[1], r[2]) :
      r \in { x \in (1..(Len(s) + 1)) \X (0..Len(s)) : x[2] >= x[1] - 1 } }

(***************************************************************************)
(* Property reads on the two object literals.                              *)
(***************************************************************************)
\* COMPONENT_LIBRARY[k]
LibraryGet(k) ==
  IF \E i \in Indices : COMPONENT_LIBRARY[i].key = k
    THEN Component(CHOOSE i \in Indices : COMPONENT_LIBRARY[i].key = k)
  ELSE IF k \in ObjectPrototypeNames THEN Inherited
  ELSE JSUndefined

AliasNames == { aliases[i][1] : i \in 1..Len(aliases) }

\* aliases[k], for k an own property of aliases
AliasTarget(k) ==
  aliases[CHOOSE i \in 1..Len(aliases) : aliases[i][1] = k][2]

(***************************************************************************)
(* findComponent                                                           *)
(***************************************************************************)
\* The strings of the table never change, so what each of them includes is
\* tabulated once: x.includes(q) is q \in Substrings(x).
keyIncludes ==
  Tabulate([i \in Indices |-> Substrings(COMPONENT_LIBRARY[i].key)])

tagIncludes ==
  Tabulate([i \in Indices |->
     Tabulate([t \in 1..Len(COMPONENT_LIBRARY[i].tags) |->
        Substrings(COMPONENT_LIBRARY[i].tags[t])])])

\* componentInfo.tags.some(tag => tag.includes(q) || q.includes(tag))
TagHit(i, normalizedQuery) ==
  \E t \in 1..Len(COMPONENT_LIBRARY[i].tags) :
     \/ normalizedQuery \in tagIncludes[i][t]
     \/ includes(normalizedQuery, COMPONENT_LIBRARY[i].tags[t])

\* componentName.includes(q) || q.includes(componentName), componentName
\* being the table key of the entry
NameHit(i, normalizedQuery) ==
  \/ normalizedQuery \in keyIncludes[i]
  \/ includes(normalizedQuery, COMPONENT_LIBRARY[i].key)

FirstIndex(S) == CHOOSE i \in S : \A j \in S : i <= j

\* alias matching tried before the direct match
findComponentAliasFirst(q) ==
  LET normalizedQuery == trim(toLowerCase(q))
      tagHits == { i \in Indices : TagHit(i, normalizedQuery) }
      nameHits == { i \in Indices : NameHit(i, normalizedQuery) }
  IN IF normalizedQuery \in AliasNames
       THEN LibraryGet(AliasTarget(normalizedQuery))
     ELSE IF Truthy(LibraryGet(normalizedQuery)) THEN LibraryGet(normalizedQuery)
     ELSE IF tagHits # {} THEN Component(FirstIndex(tagHits))
     ELSE IF nameHits # {} THEN Component(FirstIndex(nameHits))
     ELSE JSNull

findComponent(q) ==
  LET normalizedQuery == trim(toLowerCase(q))
      tagHits == { i \in Indices : TagHit(i, normalizedQuery) }
      nameHits == { i \in Indices : NameHit(i, normalizedQuery) }
  IN IF Truthy(LibraryGet(normalizedQuery)) THEN LibraryGet(normalizedQuery)
     ELSE IF normalizedQuery \in AliasNames
       THEN LibraryGet(AliasTarget(normalizedQuery))
     ELSE IF tagHits # {} THEN Component(FirstIndex(tagHits))
     ELSE IF nameHits # {} THEN Component(FirstIndex(nameHits))
     ELSE JSNull

\* getComponentByName: COMPONENT_LIBRARY[componentName] || null
getComponentByName(componentName) ==
  IF Truthy(LibraryGet(componentName)) THEN LibraryGet(componentName)
  ELSE JSNull

(***************************************************************************)
(* searchComponentsRanked                                                  *)
(***************************************************************************)
\* component.displayName.toLowerCase() and component.description.toLowerCase():
\* the same for every call, so they are computed once for the whole table
displayNameLower ==
  Tabulate([i \in Indices |-> toLowerCase(COMPONENT_LIBRARY[i].displayName)])

descriptionLower ==
  Tabulate([i \in Indices |-> toLowerCase(COMPONENT_LIBRARY[i].description)])

componentNameIncludes ==
  Tabulate([i \in Indices |-> Substrings(COMPONENT_LIBRARY[i].componentName)])

displayNameIncludes ==
  Tabulate([i \in Indices |-> Substrings(displayNameLower[i])])

descriptionIncludes ==
  Tabulate([i \in Indices |-> Substrings(descriptionLower[i])])

\* the if / else-if ladder of the scoring loop, for the component at index i
tierScore(i, normalizedQuery) ==
  LET c == COMPONENT_LIBRARY[i]
  IN IF c.componentName = normalizedQuery THEN 100
     ELSE IF displayNameLower[i] = normalizedQuery THEN 90
     ELSE IF startsWith(c.componentName, normalizedQuery) THEN 80
     ELSE IF startsWith(displayNameLower[i], normalizedQuery) THEN 70
     ELSE IF normalizedQuery \in componentNameIncludes[i] THEN 60
     ELSE IF normalizedQuery \in displayNameIncludes[i] THEN 50
     ELSE IF \E t \in 1..Len(c.tags) : c.tags[t] = normalizedQuery THEN 40
     ELSE IF \E t \in 1..Len(c.tags) : normalizedQuery \in tagIncludes[i][t] THEN 30
     ELSE IF normalizedQuery \in descriptionIncludes[i] THEN 20
     ELSE 0

\* Bonus: multiple word matches in description
wordBonus(i, queryWords) ==
  LET matchedWords == SelectSeq(queryWords,
                                LAMBDA word : word \in descriptionIncludes[i])
  IN IF Len(queryWords) > 1 THEN Len(matchedWords) * 5 ELSE 0

score(i, normalizedQuery, queryWords) ==
  tierScore(i, normalizedQuery) + wordBonus(i, queryWords)

\* comparator with its operands swapped: ascending by score
compareAscending(a, b) == a.score - b.score

\* the comparator handed to sort: negative keeps a before b
compare(a, b) == b.score - a.score

\* a sort that orders by the comparator but puts equal elements in reverse
sortTiesReversed(seq) ==
  LET before(j, i) == \/ compare(seq[j], seq[i]) < 0
                      \/ compare(seq[j], seq[i]) = 0 /\ j > i
      place == Tabulate([i \in 1..Len(seq) |->
                 1 + Cardinality({ j \in 1..Len(seq) : before(j, i) })])
  IN [p \in 1..Len(seq) |-> seq[CHOOSE i \in 1..Len(seq) : place[i] = p]]

\* Array.prototype.sort is stable: an element comes after exactly those the
\* comparator orders before it and those that compare equal and precede it.
sort(seq) ==
  LET before(j, i) == \/ compare(seq[j], seq[i]) < 0
                      \/ compare(seq[j], seq[i]) = 0 /\ j < i
      place == Tabulate([i \in 1..Len(seq) |->
                 1 + Cardinality({ j \in 1..Len(seq) : before(j, i) })])
  IN [p \in 1..Len(seq) |-> seq[CHOOSE i \in 1..Len(seq) : place[i] = p]]

\* Array.prototype.slice(0, end)
slice(seq, end) ==
  LET stop == IF end < 0 THEN (IF Len(seq) + end < 0 THEN 0 ELSE Len(seq) + end)
              ELSE IF end > Len(seq) THEN Len(seq) ELSE end
  IN SubSeq(seq, 1, stop)

IndexSeq == Tabulate([i \in Indices |-> i])

\* the category argument ignored
componentsToSearchUnfiltered(cat) == IndexSeq

\* Object.values(COMPONENT_LIBRARY), filtered by category when one is given
componentsToSearch(cat) ==
  IF cat # <<>>
    THEN SelectSeq(IndexSeq, LAMBDA i : COMPONENT_LIBRARY[i].category = cat[1])
    ELSE IndexSeq

\* the pushes of the scoring loop: only components with non-zero score
included(sc) == sc.score > 0

scoredComponents(q, cat) ==
  LET normalizedQuery == trim(toLowerCase(q))
      queryWords == split(normalizedQuery)
      toSearch == componentsToSearch(cat)
      all == [n \in 1..Len(toSearch) |->
                [component |-> toSearch[n],
                 score |-> score(toSearch[n], normalizedQuery, queryWords)]]
  IN SelectSeq(all, included)

DefaultLimit == 10

\* scoredComponents.sort(...)
rankedComponents(q, cat) == sort(scoredComponents(q, cat))

\* .slice(0, limit), limit defaulting to 10 when the argument is absent
truncated(ranked, lim) ==
  slice(ranked, IF lim = <<>> THEN DefaultLimit ELSE lim[1])

\* the scored list after sort and slice; the caller sees its components
searchComponentsRanked(q, cat, lim) ==
  truncated(rankedComponents(q, cat), lim)

(***************************************************************************)
(* component-service: listComponents, getComponentDetails, getComponent    *)
(***************************************************************************)
All == <<"a","l","l">>

getAllComponents == IndexSeq

getComponentsByCategory(c) ==
  SelectSeq(IndexSeq, LAMBDA i : COMPONENT_LIBRARY[i].category = c)

ListFallbackLimit == 100

\* the components listComponents selects, before they are mapped to
\* summaries; ranked is rankedComponents(q, cat), which the search branch
\* reaches through searchComponentsRanked
\* !query || query.toLowerCase() === "all"
listsAll(q) == q = <<>> \/ toLowerCase(q) = All

listed(q, cat, lim, ranked) ==
  IF listsAll(q)
    THEN LET found == IF cat # <<>> THEN getComponentsByCategory(cat[1])
                      ELSE getAllComponents
             every == [n \in 1..Len(found) |-> [component |-> found[n], score |-> 0]]
         IN IF lim # <<>> /\ lim[1] # 0 /\ lim[1] > 0
              THEN slice(every, lim[1]) ELSE every
    ELSE truncated(ranked,
           IF lim # <<>> /\ lim[1] # 0 THEN lim ELSE <<ListFallbackLimit>>)

listComponents(q, cat, lim) == listed(q, cat, lim, rankedComponents(q, cat))

ComponentSummary(i) ==
  [name |-> COMPONENT_LIBRARY[i].componentName,
   category |-> COMPONENT_LIBRARY[i].category]

\* what a response generator does with the looked-up value: a component
\* record is formatted; an inherited Object.prototype member has no
\* category, and capitalizeFirst(undefined) throws a TypeError.
generateResponse(v, kind) ==
  IF v.type = "component" THEN kind ELSE "throws"

getComponentDetails(componentName) ==
  LET componentInfo == getComponentByName(componentName)
  IN IF ~Truthy(componentInfo) THEN "notFound"
     ELSE generateResponse(componentInfo, "details")

getComponent(searchQuery) ==
  LET componentInfo == findComponent(searchQuery)
  IN IF ~Truthy(componentInfo) THEN "notFound"
     ELSE generateResponse(componentInfo, "component")

(***************************************************************************)
(* Arguments the calls are tried with.                                     *)
(***************************************************************************)
MaxLimit == 2

ExtraQueries ==
  { <<>>,
    <<" ">>,
    <<"a","l","l">>,
    <<"A","l","l">>,
    <<"B","u","t","t","o","n">>,
    <<" ","b","u","t","t","o","n"," ">>,
    <<"r","a","d","i","o","-","g","r","o","u","p">>,
    <<"c","l","i","c","k">>,
    <<"v","e","r","s","a","t","i","l","e">>,
    <<"z","z","z">>,
    <<"b","u","t","t","o","n","s">>,
    <<"t","e","x","t"," ","i","n","p","u","t">>,
    <<"i","n","p","u","t"," ","f","i","e","l","d">>,
    <<"b","u","t","t","o","n"," ","b","u","t","t","o","n">>,
    <<"a">>,
    <<"a","i">>,
    <<"c","o","n","s","t","r","u","c","t","o","r">>,
    <<"_","_","p","r","o","t","o","_","_">>,
    <<"t","o","S","t","r","i","n","g">> }

\* lookups: every table key, every alias and the extra queries
Queries == Keys \cup AliasNames \cup ExtraQueries

\* ranked search: every table key and the extra queries
SearchQueries == Keys \cup ExtraQueries

\* listing: the extra queries and the keys "button" and "radio"
ListQueries ==
  ExtraQueries \cup { <<"b","u","t","t","o","n">>, <<"r","a","d","i","o">> }

CategoryNames == { COMPONENT_LIBRARY[i].category : i \in Indices }

Categories == { <<>> } \cup { <<c>> : c \in CategoryNames \cup {"unknown"} }

Limits == { <<>> } \cup { <<n>> : n \in -1..MaxLimit }

(***************************************************************************)
(* State machine: one action per exported function and per route.          *)
(***************************************************************************)
NoList == <<>>

Init ==
  /\ pc = "idle"
  /\ op = "none"
  /\ query = <<>>
  /\ category = <<>>
  /\ limit = <<>>
  /\ value = JSNull
  /\ components = NoList
  /\ scores = NoList
  /\ matched = 0
  /\ summaries = NoList
  /\ body = "none"
  /\ httpStatus = 0
  /\ origin = 0
  /\ MatcherIdle
  /\ ConversationIdle
  /\ ScreenshotIdle
  /\ HttpIdle
  /\ ClientIdle

Called(o, q) ==
  /\ pc' = "done"
  /\ op' = o
  /\ query' = q
  /\ UNCHANGED otherVars

NoArgs == category' = <<>> /\ limit' = <<>>

NoLookup == value' = JSNull

NoResults ==
  components' = NoList /\ scores' = NoList /\ matched' = 0 /\ summaries' = NoList

Results(scored, mapped, total) ==
  /\ matched' = total
  /\ components' = [n \in 1..Len(scored) |-> scored[n].component]
  /\ scores' = [n \in 1..Len(scored) |-> scored[n].score]
  /\ summaries' = IF mapped
                    THEN [n \in 1..Len(scored) |-> ComponentSummary(scored[n].component)]
                    ELSE NoList

FindComponent ==
  /\ pc = "idle"
  /\ \E q \in Queries :
       /\ Called("findComponent", q)
       /\ value' = findComponent(q)
  /\ NoArgs /\ NoResults
  /\ body' = "none" /\ httpStatus' = 0 /\ origin' = 0

GetComponentByName ==
  /\ pc = "idle"
  /\ \E q \in Queries :
       /\ Called("getComponentByName", q)
       /\ value' = getComponentByName(q)
  /\ NoArgs /\ NoResults
  /\ body' = "none" /\ httpStatus' = 0 /\ origin' = 0

SearchComponentsRanked ==
  /\ pc = "idle"
  /\ \E q \in SearchQueries, c \in Categories :
       LET ranked == rankedComponents(q, c)
       IN \E l \in Limits :
            /\ Called("searchComponentsRanked", q)
            /\ category' = c
            /\ limit' = l
            /\ Results(truncated(ranked, l), FALSE, Len(ranked))
  /\ NoLookup
  /\ body' = "none" /\ httpStatus' = 0 /\ origin' = 0

ListComponents ==
  /\ pc = "idle"
  /\ \E q \in ListQueries, c \in Categories :
       LET ranked == rankedComponents(q, c)
       IN \E l \in Limits :
            /\ Called("listComponents", q)
            /\ category' = c
            /\ limit' = l
            /\ Results(listed(q, c, l, ranked), TRUE,
                       IF listsAll(q) THEN 0 ELSE Len(ranked))
  /\ NoLookup
  /\ body' = "none" /\ httpStatus' = 0 /\ origin' = 0

GetComponentDetails ==
  /\ pc = "idle"
  /\ \E q \in Queries :
       /\ Called("getComponentDetails", q)
       /\ value' = getComponentByName(q)
       /\ body' = getComponentDetails(q)
  /\ NoArgs /\ NoResults
  /\ httpStatus' = 0 /\ origin' = 0

\* second stage of the discovery: the caller passes a name that
\* list_components returned to get_component_details
GetListedComponentDetails ==
  /\ pc = "done"
  /\ op = "listComponents"
  /\ \E n \in 1..Len(summaries) :
       /\ Called("getComponentDetails", summaries[n].name)
       /\ value' = getComponentByName(summaries[n].name)
       /\ body' = getComponentDetails(summaries[n].name)
       /\ origin' = components[n]
  /\ NoArgs /\ NoResults
  /\ httpStatus' = 0

GetComponent ==
  /\ pc = "idle"
  /\ \E q \in Queries :
       /\ Called("getComponent", q)
       /\ value' = findComponent(q)
       /\ body' = getComponent(q)
  /\ NoArgs /\ NoResults
  /\ httpStatus' = 0 /\ origin' = 0

\* GET /api/component/:componentName
RouteGetComponent ==
  /\ pc = "idle"
  /\ \E q \in Queries \ { <<>> } :
       /\ Called("GET /component/:componentName", q)
       /\ value' = findComponent(q)
       /\ httpStatus' = IF ~Truthy(findComponent(q)) THEN 404 ELSE 200
  /\ NoArgs /\ NoResults
  /\ body' = "none" /\ origin' = 0

\* POST /api/component/details
RoutePostDetails ==
  /\ pc = "idle"
  /\ \E q \in Queries :
       /\ Called("POST /component/details", q)
       /\ IF q = <<>>
            THEN value' = JSNull /\ body' = "none" /\ httpStatus' = 400
            ELSE /\ value' = getComponentByName(q)
                 /\ body' = getComponentDetails(q)
                 /\ httpStatus' = IF getComponentDetails(q) = "throws" THEN 500 ELSE 200
  /\ NoArgs /\ NoResults
  /\ origin' = 0

\* POST /api/component
RoutePostComponent ==
  /\ pc = "idle"
  /\ \E q \in Queries :
       /\ Called("POST /component", q)
       /\ IF q = <<>>
            THEN value' = JSNull /\ body' = "none" /\ httpStatus' = 400
            ELSE /\ value' = findComponent(q)
                 /\ body' = getComponent(q)
                 /\ httpStatus' = IF getComponent(q) = "throws" THEN 500 ELSE 200
  /\ NoArgs /\ NoResults
  /\ origin' = 0

\* POST /api/component/list
RoutePostList ==
  /\ pc = "idle"
  /\ \E q \in ListQueries, c \in Categories :
       LET ranked == rankedComponents(q, c)
       IN \E l \in Limits :
            /\ Called("POST /component/list", q)
            /\ category' = c
            /\ limit' = l
            /\ Results(listed(IF q = <<>> THEN All ELSE q, c,
                               IF l # <<>> /\ l[1] # 0 THEN l ELSE <<>>, ranked),
                       TRUE,
                       IF listsAll(IF q = <<>> THEN All ELSE q) THEN 0 ELSE Len(ranked))
  /\ NoLookup
  /\ body' = "none" /\ httpStatus' = 200 /\ origin' = 0

\* the call has returned and its result is dropped: the server keeps nothing
Return ==
  /\ pc = "done"
  /\ pc' = "idle"
  /\ op' = "none"
  /\ query' = <<>>
  /\ NoArgs /\ NoLookup /\ NoResults
  /\ body' = "none" /\ httpStatus' = 0 /\ origin' = 0
  /\ UNCHANGED otherVars

Next ==
  \/ FindComponent
  \/ GetComponentByName
  \/ SearchComponentsRanked
  \/ ListComponents
  \/ GetComponentDetails
  \/ GetListedComponentDetails
  \/ GetComponent
  \/ RouteGetComponent
  \/ RoutePostDetails
  \/ RoutePostComponent
  \/ RoutePostList
  \/ Return

Spec == Init /\ [][Next]_vars

(***************************************************************************)
(* Properties of ranked search and lookup.                                 *)
(***************************************************************************)
Str_radio == <<"r","a","d","i","o">>
Str_tooltip == <<"t","o","o","l","t","i","p">>
Str_button == <<"b","u","t","t","o","n">>

ListOps == { "listComponents", "POST /component/list" }

\* C1: whatever the query, the category filter and the limit, the results of
\* searchComponentsRanked are in non-increasing score order and no returned
\* component has a total score of 0.
C1_RankedNonIncreasingNonZero ==
  op = "searchComponentsRanked" =>
    /\ \A n \in 1..Len(scores) : scores[n] > 0
    /\ \A n \in 1..(Len(scores) - 1) : scores[n] >= scores[n + 1]

\* a search without limit returned at least three components, the first
\* scoring strictly more than the last
C1_Witness ==
  /\ op = "searchComponentsRanked"
  /\ limit = <<>>
  /\ Len(scores) >= 3
  /\ scores[1] > scores[Len(scores)]

\* C2: a search for a table key (no category filter, no limit argument)
\* returns that key's component first, with the exact-match score 100, and
\* every other result scores strictly less.
C2_ExactKeyRanksFirstWith100 ==
  (op = "searchComponentsRanked" /\ query \in Keys
     /\ category = <<>> /\ limit = <<>>) =>
    /\ Len(components) >= 1
    /\ COMPONENT_LIBRARY[components[1]].key = query
    /\ scores[1] = 100
    /\ \A n \in 2..Len(scores) : scores[n] < 100

\* C3: with a category filter, no component returned by searchComponentsRanked
\* or by listComponents (the list-all path included) has another category.
C3_CategoryFilterRespected ==
  category # <<>> =>
    /\ op = "searchComponentsRanked" =>
         \A n \in 1..Len(components) :
            COMPONENT_LIBRARY[components[n]].category = category[1]
    /\ op \in ListOps =>
         \A n \in 1..Len(summaries) : summaries[n].category = category[1]

\* a filtered ranked search returned several components of the category
C3_Witness ==
  /\ op = "searchComponentsRanked"
  /\ category = <<"advanced-button">>
  /\ query = Str_button
  /\ Len(components) >= 2

\* C4: an exact-key lookup with a table key, by findComponent or by
\* getComponentByName, returns exactly the record stored under that key.
C4_ExactKeyLookup ==
  (op \in {"findComponent", "getComponentByName"} /\ query \in Keys) =>
    /\ value.type = "component"
    /\ COMPONENT_LIBRARY[value.index].key = query

\* findComponent was called with the key "tooltip", which is also an alias
\* name, and returned the tooltip record
C4_Witness ==
  /\ op = "findComponent"
  /\ query = Str_tooltip
  /\ value.type = "component"
  /\ COMPONENT_LIBRARY[value.index].key = Str_tooltip

\* C5: for every pair (a -> k) of the alias table, findComponent(a) returns
\* the same record as findComponent(k).
C5_AliasSameAsTarget ==
  (op = "findComponent" /\ query \in AliasNames) =>
    value = findComponent(AliasTarget(query))

\* what the four rules of C6 yield, read over the table's own keys: exact
\* key, alias, first tag hit, first key hit, else not found
RuleHit(q) ==
  LET normalizedQuery == trim(toLowerCase(q))
  IN \/ normalizedQuery \in Keys
     \/ normalizedQuery \in AliasNames
     \/ \E i \in Indices : TagHit(i, normalizedQuery)
     \/ \E i \in Indices : NameHit(i, normalizedQuery)

KeyIndex(k) == CHOOSE i \in Indices : COMPONENT_LIBRARY[i].key = k

RuleResult(q) ==
  LET normalizedQuery == trim(toLowerCase(q))
      tagHits == { i \in Indices : TagHit(i, normalizedQuery) }
      nameHits == { i \in Indices : NameHit(i, normalizedQuery) }
  IN IF normalizedQuery \in Keys THEN Component(KeyIndex(normalizedQuery))
     ELSE IF normalizedQuery \in AliasNames
       THEN IF AliasTarget(normalizedQuery) \in Keys
              THEN Component(KeyIndex(AliasTarget(normalizedQuery)))
              ELSE JSUndefined
     ELSE IF tagHits # {} THEN Component(FirstIndex(tagHits))
     ELSE IF nameHits # {} THEN Component(FirstIndex(nameHits))
     ELSE JSNull

\* C6: findComponent returns the component of the first rule that hits, in
\* the order exact key, alias, tag, key substring, and returns not-found
\* only when no rule hits.
C6_FirstRuleWins ==
  op = "findComponent" =>
    /\ value = RuleResult(query)
    /\ RuleHit(query) => value.type = "component"
    /\ ~RuleHit(query) => value = JSNull

\* C7: every name that listComponents returns is accepted by
\* getComponentDetails, which resolves the component the name came from.
C7_ListedNameResolves ==
  (op = "getComponentDetails" /\ origin # 0) =>
    /\ body = "details"
    /\ value = Component(origin)

\* C8: without a limit argument ranked search truncates nothing: every
\* component scoring more than 0 is returned.
C8_NoLimitReturnsAllMatches ==
  /\ (op = "searchComponentsRanked" /\ limit = <<>>) =>
        Len(components) = matched
  /\ (op \in ListOps /\ limit = <<>> /\ ~listsAll(query)) =>
        Len(components) = matched

\* C9: a query that is empty after normalization matches no component:
\* searchComponentsRanked returns an empty result for it.
C9_EmptyQueryMatchesNothing ==
  (op = "searchComponentsRanked" /\ trim(toLowerCase(query)) = <<>>) =>
    components = <<>>

\* C10: a name or query that is no table key and resolves through no rule
\* gets the "Component Not Found" body from getComponentDetails and
\* getComponent and 404 from the GET lookup; nothing throws, no request
\* ends as a 500.
C10_NotFoundIsAValue ==
  /\ (op \in {"getComponentDetails", "POST /component/details"}
        /\ query # <<>> /\ query \notin Keys) =>
        (body = "notFound" /\ httpStatus # 500)
  /\ (op \in {"getComponent", "POST /component"}
        /\ query # <<>> /\ ~RuleHit(query)) =>
        (body = "notFound" /\ httpStatus # 500)
  /\ (op = "GET /component/:componentName" /\ ~RuleHit(query)) =>
        httpStatus = 404

(***************************************************************************)
(* component-matcher.ts: visual patterns and matchComponentsFromAnalysis.  *)
(***************************************************************************)
VISUAL_PATTERNS ==
  <<
    [ name |-> "hero",
      keywords |-> <<
        <<"h","e","r","o">>,
        <<"b","a","n","n","e","r">>,
        <<"j","u","m","b","o","t","r","o","n">>,
        <<"l","a","r","g","e"," ","h","e","a","d","i","n","g">>,
        <<"m","a","i","n"," ","h","e","a","d","i","n","g">>,
        <<"h","e","r","o"," ","s","e","c","t","i","o","n">>,
        <<"l","a","n","d","i","n","g"," ","h","e","a","d","e","r">>,
        <<"a","b","o","v","e"," ","t","h","e"," ","f","o","l","d">>,
        <<"h","e","a","d","l","i","n","e">> >>,
      components |-> <<
        <<"c","a","r","d">>,
        <<"b","u","t","t","o","n">>,
        <<"g","r","a","d","i","e","n","t","-","t","e","x","t">>,
        <<"g","l","o","w","-","b","u","t","t","o","n">>,
        <<"g","r","a","d","i","e","n","t","-","b","u","t","t","o","n">> >>,
      priority |-> 10 ],
    [ name |-> "navigation",
      keywords |-> <<
        <<"n","a","v","i","g","a","t","i","o","n">>,
        <<"n","a","v","b","a","r">>,
        <<"n","a","v"," ","b","a","r">>,
        <<"m","e","n","u">>,
        <<"h","e","a","d","e","r">>,
        <<"n","a","v"," ","l","i","n","k","s">>,
        <<"t","o","p"," ","m","e","n","u">>,
        <<"n","a","v","i","g","a","t","i","o","n"," ","b","a","r">>,
        <<"s","i","t","e"," ","n","a","v","i","g","a","t","i","o","n">>,
        <<"m","a","i","n"," ","n","a","v">> >>,
      components |-> <<
        <<"n","a","v","i","g","a","t","i","o","n","-","m","e","n","u">>,
        <<"m","e","n","u","b","a","r">>,
        <<"t","a","b","s">>,
        <<"b","r","e","a","d","c","r","u","m","b">>,
        <<"d","r","o","p","d","o","w","n","-","m","e","n","u">> >>,
      priority |-> 9 ],
    [ name |-> "features",
      keywords |-> <<
        <<"f","e","a","t","u","r","e","s">>,
        <<"f","e","a","t","u","r","e"," ","g","r","i","d">>,
        <<"b","e","n","e","f","i","t","s">>,
        <<"t","h","r","e","e"," ","c","o","l","u","m","n","s">>,
        <<"3"," ","c","o","l","u","m","n","s">>,
        <<"i","c","o","n"," ","g","r","i","d">>,
        <<"f","e","a","t","u","r","e"," ","c","a","r","d","s">>,
        <<"f","e","a","t","u","r","e"," ","l","i","s","t">>,
        <<"k","e","y"," ","f","e","a","t","u","r","e","s">>,
        <<"h","i","g","h","l","i","g","h","t","s">> >>,
      components |-> <<
        <<"c","a","r","d">>,
        <<"b","a","d","g","e">>,
        <<"a","v","a","t","a","r">>,
        <<"s","e","p","a","r","a","t","o","r">> >>,
      priority |-> 8 ],
    [ name |-> "form",
      keywords |-> <<
        <<"f","o","r","m">>,
        <<"i","n","p","u","t">>,
        <<"c","o","n","t","a","c","t"," ","f","o","r","m">>,
        <<"s","i","g","n","u","p">>,
        <<"s","i","g","n"," ","u","p">>,
        <<"l","o","g","i","n">>,
        <<"t","e","x","t"," ","f","i","e","l","d">>,
        <<"i","n","p","u","t"," ","f","i","e","l","d">>,
        <<"f","o","r","m"," ","f","i","e","l","d">>,
        <<"c","o","n","t","a","c","t">>,
        <<"s","u","b","s","c","r","i","b","e">> >>,
      components |-> <<
        <<"f","o","r","m">>,
        <<"i","n","p","u","t">>,
        <<"t","e","x","t","a","r","e","a">>,
        <<"b","u","t","t","o","n">>,
        <<"s","e","l","e","c","t">>,
        <<"c","h","e","c","k","b","o","x">>,
        <<"l","a","b","e","l">> >>,
      priority |-> 8 ],
    [ name |-> "pricing",
      keywords |-> <<
        <<"p","r","i","c","i","n","g">>,
        <<"p","l","a","n","s">>,
        <<"t","i","e","r","s">>,
        <<"s","u","b","s","c","r","i","p","t","i","o","n">>,
        <<"p","r","i","c","e"," ","t","a","b","l","e">>,
        <<"p","r","i","c","i","n","g"," ","t","a","b","l","e">>,
        <<"p","r","i","c","i","n","g"," ","c","a","r","d","s">>,
        <<"p","l","a","n"," ","o","p","t","i","o","n","s">>,
        <<"p","a","c","k","a","g","e","s">> >>,
      components |-> <<
        <<"c","a","r","d">>,
        <<"b","a","d","g","e">>,
        <<"b","u","t","t","o","n">>,
        <<"s","e","p","a","r","a","t","o","r">>,
        <<"s","w","i","t","c","h">>,
        <<"t","o","g","g","l","e">> >>,
      priority |-> 7 ],
    [ name |-> "testimonials",
      keywords |-> <<
        <<"t","e","s","t","i","m","o","n","i","a","l","s">>,
        <<"r","e","v","i","e","w","s">>,
        <<"q","u","o","t","e","s">>,
        <<"f","e","e","d","b","a","c","k">>,
        <<"c","u","s","t","o","m","e","r"," ","s","t","o","r","i","e","s">>,
        <<"t","e","s","t","i","m","o","n","i","a","l">>,
        <<"r","e","v","i","e","w">>,
        <<"c","u","s","t","o","m","e","r"," ","f","e","e","d","b","a","c","k">>,
        <<"u","s","e","r"," ","r","e","v","i","e","w","s">>,
        <<"r","a","t","i","n","g","s">> >>,
      components |-> <<
        <<"c","a","r","d">>,
        <<"a","v","a","t","a","r">>,
        <<"c","a","r","o","u","s","e","l">>,
        <<"b","a","d","g","e">> >>,
      priority |-> 7 ],
    [ name |-> "cta",
      keywords |-> <<
        <<"c","a","l","l"," ","t","o"," ","a","c","t","i","o","n">>,
        <<"c","t","a">>,
        <<"s","i","g","n"," ","u","p">>,
        <<"g","e","t"," ","s","t","a","r","t","e","d">>,
        <<"t","r","y"," ","n","o","w">>,
        <<"a","c","t","i","o","n"," ","b","u","t","t","o","n">>,
        <<"p","r","i","m","a","r","y"," ","b","u","t","t","o","n">>,
        <<"s","t","a","r","t"," ","f","r","e","e"," ","t","r","i","a","l">>,
        <<"d","o","w","n","l","o","a","d">> >>,
      components |-> <<
        <<"b","u","t","t","o","n">>,
        <<"g","l","o","w","-","b","u","t","t","o","n">>,
        <<"g","r","a","d","i","e","n","t","-","b","u","t","t","o","n">>,
        <<"s","h","i","m","m","e","r","-","b","u","t","t","o","n">> >>,
      priority |-> 9 ],
    [ name |-> "stats",
      keywords |-> <<
        <<"s","t","a","t","i","s","t","i","c","s">>,
        <<"s","t","a","t","s">>,
        <<"n","u","m","b","e","r","s">>,
        <<"m","e","t","r","i","c","s">>,
        <<"c","o","u","n","t","e","r">>,
        <<"a","c","h","i","e","v","e","m","e","n","t","s">>,
        <<"k","e","y"," ","n","u","m","b","e","r","s">>,
        <<"d","a","t","a">>,
        <<"a","n","a","l","y","t","i","c","s">> >>,
      components |-> <<
        <<"c","a","r","d">>,
        <<"c","o","u","n","t","i","n","g","-","n","u","m","b","e","r">>,
        <<"s","l","i","d","i","n","g","-","n","u","m","b","e","r">>,
        <<"b","a","d","g","e">>,
        <<"p","r","o","g","r","e","s","s">> >>,
      priority |-> 6 ],
    [ name |-> "gallery",
      keywords |-> <<
        <<"g","a","l","l","e","r","y">>,
        <<"i","m","a","g","e","s">>,
        <<"p","o","r","t","f","o","l","i","o">>,
        <<"s","h","o","w","c","a","s","e">>,
        <<"i","m","a","g","e"," ","g","r","i","d">>,
        <<"p","h","o","t","o"," ","g","a","l","l","e","r","y">>,
        <<"i","m","a","g","e"," ","s","h","o","w","c","a","s","e">>,
        <<"w","o","r","k"," ","s","a","m","p","l","e","s">> >>,
      components |-> <<
        <<"c","a","r","o","u","s","e","l">>,
        <<"c","a","r","d">>,
        <<"a","s","p","e","c","t","-","r","a","t","i","o">>,
        <<"d","i","a","l","o","g">> >>,
      priority |-> 6 ],
    [ name |-> "faq",
      keywords |-> <<
        <<"f","a","q">>,
        <<"q","u","e","s","t","i","o","n","s">>,
        <<"a","c","c","o","r","d","i","o","n">>,
        <<"c","o","l","l","a","p","s","i","b","l","e">>,
        <<"q","&","a">>,
        <<"f","r","e","q","u","e","n","t","l","y"," ","a","s","k","e","d">>,
        <<"h","e","l","p">>,
        <<"s","u","p","p","o","r","t">> >>,
      components |-> <<
        <<"a","c","c","o","r","d","i","o","n">>,
        <<"c","o","l","l","a","p","s","i","b","l","e">>,
        <<"c","a","r","d">> >>,
      priority |-> 5 ],
    [ name |-> "footer",
      keywords |-> <<
        <<"f","o","o","t","e","r">>,
        <<"s","i","t","e"," ","f","o","o","t","e","r">>,
        <<"b","o","t","t","o","m">>,
        <<"c","o","p","y","r","i","g","h","t">>,
        <<"l","i","n","k","s"," ","f","o","o","t","e","r">>,
        <<"f","o","o","t","e","r"," ","l","i","n","k","s">>,
        <<"s","o","c","i","a","l"," ","l","i","n","k","s">> >>,
      components |-> <<
        <<"s","e","p","a","r","a","t","o","r">>,
        <<"b","u","t","t","o","n">>,
        <<"n","a","v","i","g","a","t","i","o","n","-","m","e","n","u">> >>,
      priority |-> 4 ],
    [ name |-> "table",
      keywords |-> <<
        <<"t","a","b","l","e">>,
        <<"d","a","t","a"," ","t","a","b","l","e">>,
        <<"g","r","i","d">>,
        <<"r","o","w","s">>,
        <<"c","o","l","u","m","n","s">>,
        <<"c","o","m","p","a","r","i","s","o","n"," ","t","a","b","l","e">>,
        <<"f","e","a","t","u","r","e"," ","c","o","m","p","a","r","i","s","o","n">> >>,
      components |-> <<
        <<"t","a","b","l","e">>,
        <<"b","a","d","g","e">>,
        <<"c","h","e","c","k","b","o","x">> >>,
      priority |-> 6 ],
    [ name |-> "tabs",
      keywords |-> <<
        <<"t","a","b","s">>,
        <<"t","a","b","b","e","d">>,
        <<"t","a","b"," ","n","a","v","i","g","a","t","i","o","n">>,
        <<"t","a","b"," ","p","a","n","e","l">>,
        <<"s","w","i","t","c","h"," ","b","e","t","w","e","e","n">>,
        <<"t","o","g","g","l","e"," ","v","i","e","w","s">> >>,
      components |-> <<
        <<"t","a","b","s">>,
        <<"t","o","g","g","l","e","-","g","r","o","u","p">> >>,
      priority |-> 7 ]
  >>

PatternIndices == 1..Len(VISUAL_PATTERNS)

\* the priority kept for a component is overwritten by each pattern
keepLatest(old, new) == new

\* Math.max(priorities[comp] || 0, pattern.priority)
keepHighest(old, new) == IF old > new THEN old ELSE new

\* only the first keyword of the list is tried
firstKeywordOnly(pattern, lowerAnalysis) ==
  IF includes(lowerAnalysis, pattern.keywords[1]) THEN 1 ELSE 0

\* the keyword at which the inner loop breaks; 0 when the loop runs out
firstKeyword(pattern, lowerAnalysis) ==
  LET hits == { k \in 1..Len(pattern.keywords) :
                  includes(lowerAnalysis, pattern.keywords[k]) }
  IN IF hits = {} THEN 0 ELSE CHOOSE k \in hits : \A j \in hits : k <= j

\* matchedComponents.add(comp) and the update of priorities[comp]; set
\* is matchedComponents in insertion order, each name with its entry of priorities
addComponent(set, comp, priority) ==
  IF \E n \in 1..Len(set) : set[n].componentName = comp
    THEN Tabulate([n \in 1..Len(set) |->
           IF set[n].componentName = comp
             THEN [componentName |-> comp,
                   priority |-> keepHighest(set[n].priority, priority)]
             ELSE set[n]])
    ELSE Append(set, [componentName |-> comp,
                          priority |-> keepHighest(0, priority)])

RECURSIVE addComponents(_, _, _, _)
addComponents(set, comps, n, priority) ==
  IF n > Len(comps) THEN set
  ELSE addComponents(addComponent(set, comps[n], priority), comps, n + 1, priority)

RECURSIVE matchPatterns(_, _, _)
matchPatterns(set, p, lowerAnalysis) ==
  IF p > Len(VISUAL_PATTERNS) THEN set
  ELSE matchPatterns(
         IF firstKeyword(VISUAL_PATTERNS[p], lowerAnalysis) # 0
           THEN addComponents(set, VISUAL_PATTERNS[p].components, 1,
                              VISUAL_PATTERNS[p].priority)
           ELSE set,
         p + 1, lowerAnalysis)

DefaultPriority == 5

defaultComponents ==
  << <<"b","u","t","t","o","n">>, <<"c","a","r","d">>, <<"i","n","p","u","t">> >>

\* the default step left out
withoutDefaults(set) == set

\* the basic components, added if nothing matched
withDefaults(set) ==
  IF Len(set) = 0
    THEN [n \in 1..Len(defaultComponents) |->
            [componentName |-> defaultComponents[n], priority |-> DefaultPriority]]
    ELSE set

\* priorities[name] || 0
priorityOf(set, name) ==
  IF \E n \in 1..Len(set) : set[n].componentName = name
    THEN set[CHOOSE n \in 1..Len(set) : set[n].componentName = name].priority
    ELSE 0

\* the components the library knows, in the order of the Set
knownComponents(set) ==
  LET known == SelectSeq(set,
                 LAMBDA m : getComponentByName(m.componentName).type = "component")
  IN Tabulate([n \in 1..Len(known) |->
       LET i == getComponentByName(known[n].componentName).index
       IN [component |-> i,
           priority |-> priorityOf(set, COMPONENT_LIBRARY[i].componentName)]])

comparePriority(a, b) == b.priority - a.priority

sortByPriority(seq) ==
  LET before(j, i) == \/ comparePriority(seq[j], seq[i]) < 0
                      \/ comparePriority(seq[j], seq[i]) = 0 /\ j < i
      place == Tabulate([i \in 1..Len(seq) |->
                 1 + Cardinality({ j \in 1..Len(seq) : before(j, i) })])
  IN Tabulate([p \in 1..Len(seq) |-> seq[CHOOSE i \in 1..Len(seq) : place[i] = p]])

matchComponentsFromAnalysis(text) ==
  sortByPriority(knownComponents(withDefaults(
    matchPatterns(<<>>, 1, toLowerCase(text)))))

\* analysis texts: up to MaxFragments fragments joined by blanks
MaxFragments == 2

Fragments ==
  { <<"H","e","r","o">>,
    <<"p","r","i","c","i","n","g">>,
    <<"s","i","g","n">>,
    <<"u","p">>,
    <<"i","n","f","o","r","m","a","t","i","o","n">>,
    <<"t","a","b","b","e","d"," ","m","e","n","u">>,
    <<"d","a","t","a"," ","t","a","b","l","e">>,
    <<"x","y","z">>,
    <<"a"," ","p","a","g","e">>,
    <<"F","o","o","t","e","r">> }

RECURSIVE Texts(_)
Texts(n) ==
  IF n = 0 THEN { <<>> }
  ELSE Texts(n - 1) \cup
       { t \o <<" ">> \o f : t \in Texts(n - 1) \ { <<>> }, f \in Fragments }
       \cup Fragments

Analyses == Texts(MaxFragments)

MatchComponentsFromAnalysis ==
  /\ mpc = "idle"
  /\ \E text \in Analyses :
       \E result \in { matchComponentsFromAnalysis(text) } :
          /\ analysis' = text
          /\ matchedComponents' =
               Tabulate([n \in 1..Len(result) |-> result[n].component])
          /\ priorities' =
               Tabulate([n \in 1..Len(result) |-> result[n].priority])
  /\ mpc' = "done"
  /\ UNCHANGED << finderVars, conversationVars, screenshotVars, httpVars, clientVars >>

\* the promise has resolved and the caller has taken the result
MatcherReturn ==
  /\ mpc = "done"
  /\ mpc' = "idle"
  /\ analysis' = <<>>
  /\ matchedComponents' = <<>>
  /\ priorities' = <<>>
  /\ UNCHANGED << finderVars, conversationVars, screenshotVars, httpVars, clientVars >>

MatcherNext ==
  \/ MatchComponentsFromAnalysis
  \/ MatcherReturn

MatcherSpec == Init /\ [][MatcherNext]_vars

(***************************************************************************)
(* Properties of matchComponentsFromAnalysis.                              *)
(***************************************************************************)
\* the patterns of which some keyword occurs in the lowered text
HitPatternsOf(lowerAnalysis) ==
  { p \in PatternIndices :
      \E k \in 1..Len(VISUAL_PATTERNS[p].keywords) :
        includes(lowerAnalysis, VISUAL_PATTERNS[p].keywords[k]) }

HitPatterns == LET lowerAnalysis == toLowerCase(analysis)
               IN HitPatternsOf(lowerAnalysis)

Lists(p, name) ==
  \E n \in 1..Len(VISUAL_PATTERNS[p].components) :
    VISUAL_PATTERNS[p].components[n] = name

ReturnedNames ==
  { COMPONENT_LIBRARY[matchedComponents[n]].key : n \in 1..Len(matchedComponents) }

NoDuplicates == Cardinality(ReturnedNames) = Len(matchedComponents)

\* C11: for an analysis in which no keyword of any pattern occurs, the match
\* returns exactly button, card and input, each at the default priority.
C11_NoKeywordGivesDefaults ==
  (mpc = "done" /\ HitPatterns = {}) =>
    /\ Len(matchedComponents) = 3
    /\ ReturnedNames = { <<"b","u","t","t","o","n">>, <<"c","a","r","d">>, <<"i","n","p","u","t">> }
    /\ \A n \in 1..Len(priorities) : priorities[n] = 5

C11_Witness ==
  /\ mpc = "done"
  /\ analysis = <<"a"," ","p","a","g","e"," ","x","y","z">>
  /\ HitPatterns = {}
  /\ Len(matchedComponents) = 3

\* C12: when some pattern matches, the returned components are exactly the
\* union of the component lists of the matched patterns, each once.
C12_UnionOfMatchedPatterns ==
  LET hit == HitPatterns
      returned == ReturnedNames
  IN (mpc = "done" /\ hit # {}) =>
       /\ \A name \in returned : \E p \in hit : Lists(p, name)
       /\ \A p \in hit :
            \A n \in 1..Len(VISUAL_PATTERNS[p].components) :
              VISUAL_PATTERNS[p].components[n] \in returned
       /\ NoDuplicates

\* "sign up" is the fifth keyword of form and the third of cta
C12_Witness ==
  /\ mpc = "done"
  /\ analysis = <<"s","i","g","n"," ","u","p">>
  /\ Cardinality(HitPatterns) = 2
  /\ Len(matchedComponents) = 10

\* C13: the result is ordered by non-increasing priority, and the priority
\* of a returned component is the highest priority among the matched
\* patterns that list it.
C13_SortedByHighestPriority ==
  LET hit == HitPatterns
  IN (mpc = "done" /\ hit # {}) =>
       /\ \A n \in 1..Len(matchedComponents) :
            LET name == COMPONENT_LIBRARY[matchedComponents[n]].key
            IN /\ \E p \in hit :
                    Lists(p, name) /\ VISUAL_PATTERNS[p].priority = priorities[n]
               /\ \A p \in hit :
                    Lists(p, name) => VISUAL_PATTERNS[p].priority <= priorities[n]
       /\ \A n \in 1..Len(priorities) - 1 : priorities[n] >= priorities[n + 1]

\* navigation (9), form (8) and tabs (7) match; "tabs" is listed by the
\* first and the last of them
C13_Witness ==
  /\ mpc = "done"
  /\ analysis = <<"t","a","b","b","e","d"," ","m","e","n","u"," ","i","n","f","o","r","m","a","t","i","o","n">>
  /\ Cardinality(HitPatterns) = 3
  /\ priorities[1] > priorities[Len(priorities)]

(***************************************************************************)
(* template-conversation.ts and template-service.ts: the four-question     *)
(* conversation.  The server keeps nothing between requests: the request   *)
(* brings the conversation state and the answer.  An answers object is     *)
(* modelled as the sequence of its <<key, value>> entries in insertion     *)
(* order.                                                                  *)
(***************************************************************************)
CONVERSATION_QUESTIONS ==
  [n \in 1..4 |->
     CASE n = 1 -> [question |-> "What is this landing page for?", key |-> "purpose"]
       [] n = 2 -> [question |-> "Who is your target audience?", key |-> "targetAudience"]
       [] n = 3 -> [question |-> "What action do you want visitors to take?",
                    key |-> "desiredAction"]
       [] n = 4 -> [question |-> "What style or tone do you prefer?", key |-> "style"]]

\* CONVERSATION_QUESTIONS[currentStep] is defined
hasQuestion(step) == step \in DOMAIN CONVERSATION_QUESTIONS

\* answers[key]; "" stands for undefined
get(answers, key) ==
  IF \E n \in 1..Len(answers) : answers[n][1] = key
    THEN answers[CHOOSE n \in 1..Len(answers) : answers[n][1] = key][2]
    ELSE ""

\* answers[key] = v
put(answers, key, v) ==
  IF \E n \in 1..Len(answers) : answers[n][1] = key
    THEN [n \in 1..Len(answers) |->
            IF answers[n][1] = key THEN << key, v >> ELSE answers[n]]
    ELSE Append(answers, << key, v >>)

\* the template text quotes the four answers; its sections are chosen from them
renderTemplate(renderer, answers) ==
  [type |-> "template",
   renderer |-> renderer,
   purpose |-> get(answers, "purpose"),
   targetAudience |-> get(answers, "targetAudience"),
   desiredAction |-> get(answers, "desiredAction"),
   style |-> get(answers, "style")]

startNewTemplateConversation ==
  [type |-> "question",
   number |-> 1,
   questionText |-> "What is this landing page for?",
   previous |-> <<>>]

generateNextQuestion(state) ==
  [type |-> "question",
   number |-> state.currentStep,
   questionText |->
     CASE state.currentStep = 2 -> "Who is your target audience?"
       [] state.currentStep = 3 -> "What action do you want visitors to take?"
       [] state.currentStep = 4 -> "What style or tone do you prefer?"
       [] OTHER -> "",
   previous |-> state.answers]

\* the answers object after the current answer is stored
storeAnswer(state, userAnswer) ==
  IF hasQuestion(state.currentStep)
    THEN put(state.answers, CONVERSATION_QUESTIONS[state.currentStep].key, userAnswer)
    ELSE state.answers

processConversationStep(state, userAnswer) ==
  LET answers == storeAnswer(state, userAnswer)
      nextStep == state.currentStep + 1
  IN IF state.currentStep >= 4
       THEN [type |-> "template",
             data |-> renderTemplate("generateTemplateFromAnswers", answers)]
     ELSE IF ~hasQuestion(nextStep)
       THEN [type |-> "throws"]   \* nextQuestion is undefined: TypeError
     ELSE [type |-> "question",
           data |-> [currentStep |-> nextStep, totalSteps |-> 4, answers |-> answers]]

processTemplateConversation(state, userAnswer) ==
  LET result == processConversationStep(state, userAnswer)
  IN CASE result.type = "question" -> generateNextQuestion(result.data)
       [] result.type = "template" -> result.data
       [] OTHER -> [type |-> "throws"]

generateTemplateFromConversation(state) ==
  renderTemplate("generateTemplateFromConversation", state.answers)

getTemplate(req) ==
  IF req.conversationState = <<>> THEN startNewTemplateConversation
  ELSE IF req.conversationState[1].currentStep <= 4
    THEN processTemplateConversation(req.conversationState[1], req.message)
  ELSE generateTemplateFromConversation(req.conversationState[1])

(***************************************************************************)
(* The caller.  A response is text: a question shows its number, the total *)
(* and the previous answers, from which the caller has the state to send   *)
(* with the next answer.  After the template nothing more is shown: the    *)
(* caller keeps the state it sent with the last answer stored, or counts   *)
(* one step further.                                                       *)
(***************************************************************************)
carried(req, resp) ==
  IF resp.type = "question"
    THEN { << [currentStep |-> resp.number, totalSteps |-> 4,
               answers |-> resp.previous] >> }
  ELSE IF resp.type = "template" /\ req.conversationState # <<>>
    THEN LET state == req.conversationState[1]
             answers == storeAnswer(state, req.message)
         IN IF state.currentStep <= 4
              THEN { << [state EXCEPT !.answers = answers] >>,
                     << [state EXCEPT !.answers = answers,
                                      !.currentStep = state.currentStep + 1] >> }
              ELSE { << state >> }
  ELSE { req.conversationState }

MaxCalls == 6

MaxStep == 5

Messages == { "SaaS Product", "Investors", "Buy" }

AnswerMaps ==
  { <<>>,
    << <<"purpose", "Event">> >>,
    << <<"purpose", "Event">>, <<"targetAudience", "Customers">>,
       <<"desiredAction", "Sign up">>, <<"style", "Minimalist">> >> }

SuppliedStates ==
  { [currentStep |-> n, totalSteps |-> 4, answers |-> a] :
      n \in -1..MaxStep, a \in AnswerMaps }

Exchange(req, trail) ==
  /\ request' = req
  /\ \E resp \in { getTemplate(req) } :
       /\ response' = resp
       /\ \E next \in carried(req, resp) :
            /\ conversationState' = next
            /\ steps' = IF resp.type = "throws" THEN trail
                        ELSE Append(trail, next[1].currentStep)
  /\ UNCHANGED << finderVars, matcherVars, screenshotVars, httpVars, clientVars >>

\* a call without conversationState
StartConversation ==
  /\ \E m \in Messages :
       Exchange([message |-> m, conversationState |-> <<>>], << 0 >>)
  /\ calls' = 1
  /\ fresh' = TRUE
  /\ complete' = FALSE

\* a call that carries the state forward
ContinueConversation ==
  /\ conversationState # <<>>
  /\ calls < MaxCalls
  /\ \E m \in Messages :
       Exchange([message |-> m, conversationState |-> conversationState], steps)
  /\ calls' = calls + 1
  /\ complete' = (response.type = "template")
  /\ UNCHANGED fresh

\* a call with a state the caller made up
ResumeConversation ==
  /\ \E m \in Messages, state \in SuppliedStates :
       Exchange([message |-> m, conversationState |-> << state >>],
                << state.currentStep >>)
  /\ calls' = 1
  /\ fresh' = FALSE
  /\ complete' = FALSE

ConversationNext ==
  \/ StartConversation
  \/ ContinueConversation
  \/ ResumeConversation

ConversationSpec == Init /\ [][ConversationNext]_vars

(***************************************************************************)
(* Properties of the template conversation.                                *)
(***************************************************************************)
\* C14: a conversation begun without state and carried forward on every
\* call has, after its fourth call, gone through currentStep 0, 1, 2, 3, 4
\* and the fourth response is the rendered template.
C14_FourCallsReachTemplate ==
  (fresh /\ calls = 4) =>
    /\ steps = << 0, 1, 2, 3, 4 >>
    /\ response.type = "template"

\* C15: a call without state returns question 1 (purpose), and a call that
\* carries step n returns question n + 1 of purpose, target audience, desired
\* action, style, whatever the answer is.
C15_QuestionFollowsStepOnly ==
  /\ (calls > 0 /\ request.conversationState = <<>>) =>
       /\ response.type = "question"
       /\ response.questionText = CONVERSATION_QUESTIONS[1].question
  /\ (calls > 0 /\ request.conversationState # <<>>) =>
       LET n == request.conversationState[1].currentStep
       IN n \in 0..3 =>
            /\ response.type = "question"
            /\ response.questionText = CONVERSATION_QUESTIONS[n + 1].question

\* C16: once the template has been returned and the state holds all four
\* answers, a further call that carries the state returns the template
\* rendered from the answers of that state, whatever its message is, and
\* never a question.
C16_CompleteIsTerminal ==
  (complete /\ Len(request.conversationState[1].answers) = 4) =>
    LET answers == request.conversationState[1].answers
    IN /\ response.type = "template"
       /\ response.purpose = get(answers, "purpose")
       /\ response.targetAudience = get(answers, "targetAudience")
       /\ response.desiredAction = get(answers, "desiredAction")
       /\ response.style = get(answers, "style")

(***************************************************************************)
(* screenshot-service.ts: the shared browser, captureScreenshot and        *)
(* closeBrowser.  Every await is a point at which another request, a       *)
(* timer or a signal handler can run.                                      *)
(***************************************************************************)
MaxBrowsers == 2

MaxSignals == 1

\* the timers count in units of TimeUnit milliseconds
TimeUnit == 10000

gotoOptions == [waitUntil |-> "networkidle", timeout |-> 30000]

\* a timeout of 0 switches the timeout off
waitForSelectorNoTimeout == [timeout |-> 0]

waitForSelectorOptions == [timeout |-> 10000]

\* the timer of a wait: -1 when the wait has no timeout
timerOf(options) ==
  IF options.timeout > 0 THEN options.timeout \div TimeUnit ELSE -1

isConnected(b) == browsers[b] = "live"

\* if (!browser || !browser.isConnected())
mustLaunch == browser = 0 \/ ~isConnected(browser)

\* what the page of a call does: its navigation settles or never does, and
\* the selector the call waits for (if it names one) appears or never does
Pages == { "never settles", "no selector", "selector appears", "selector never appears" }

elsewhere ==
  << finderVars, matcherVars, conversationVars, httpVars, clientVars >>

\* the error of a wait that ran out of time
TimeoutError(wait) ==
  IF wait = "goto" THEN "page.goto: Timeout 30000ms exceeded"
  ELSE "page.waitForSelector: Timeout 10000ms exceeded"

TargetClosedError == "Target page, context or browser has been closed"

\* the error passed on as it was thrown
rethrown(error) == << error >>

\* catch (error) { throw new Error(`Failed to capture screenshot: ${error.message}`) }
catchBlock(error) == << "Failed to capture screenshot", error >>

\* the page left as it is
finallySkipped(capture) == capture

\* finally { await page.close() }
finallyBlock(capture) == [capture EXCEPT !.open = FALSE]

Step(c, next) ==
  /\ captures' = [captures EXCEPT ![c] = next]
  /\ UNCHANGED elsewhere

\* captureScreenshot up to its first await: getBrowser has either started a
\* launch or returned the handle
CaptureScreenshot ==
  \E c \in Captures :
    /\ captures[c].pc = "idle"
    /\ mustLaunch => Len(browsers) < MaxBrowsers
    /\ Step(c, [NoCapture EXCEPT
                  !.pc = IF mustLaunch THEN "launch" ELSE "newPage",
                  !.browserInstance = IF mustLaunch THEN 0 ELSE browser])
    /\ UNCHANGED << browser, browsers, shutdown >>

\* browser = await chromium.launch(...); return browser
Launched(c) ==
  /\ captures[c].pc = "launch"
  /\ browsers' = Append(browsers, "live")
  /\ browser' = Len(browsers) + 1
  /\ Step(c, [captures[c] EXCEPT !.pc = "newPage",
                                 !.browserInstance = Len(browsers) + 1])
  /\ UNCHANGED shutdown

\* await browserInstance.newPage(...), outside the try block, and the call
\* of page.goto
NewPage(c) ==
  /\ captures[c].pc = "newPage"
  /\ IF isConnected(captures[c].browserInstance)
       THEN \E p \in Pages :
              Step(c, [captures[c] EXCEPT !.pc = "goto", !.page = p,
                                          !.open = TRUE, !.gotos = @ + 1,
                                          !.timer = timerOf(gotoOptions)])
       ELSE Step(c, [captures[c] EXCEPT !.pc = "failed", !.result = "browser closed",
                                        !.thrown = rethrown(TargetClosedError)])
  /\ UNCHANGED << browser, browsers, shutdown >>

Waiting(c) == captures[c].pc \in { "goto", "waitForSelector" }

\* page.goto resolves: the network is idle
PageLoaded ==
  \E c \in Captures :
    /\ captures[c].pc = "goto"
    /\ captures[c].page # "never settles"
    /\ isConnected(captures[c].browserInstance)
    /\ IF captures[c].page # "no selector"
         THEN Step(c, [captures[c] EXCEPT !.pc = "waitForSelector",
                                          !.timer = timerOf(waitForSelectorOptions)])
         ELSE Step(c, [captures[c] EXCEPT !.pc = "screenshot", !.timer = -1])
    /\ UNCHANGED << browser, browsers, shutdown >>

\* page.waitForSelector resolves
SelectorAppeared ==
  \E c \in Captures :
    /\ captures[c].pc = "waitForSelector"
    /\ captures[c].page = "selector appears"
    /\ isConnected(captures[c].browserInstance)
    /\ Step(c, [captures[c] EXCEPT !.pc = "screenshot", !.timer = -1])
    /\ UNCHANGED << browser, browsers, shutdown >>

\* TimeUnit milliseconds of a wait go by
Tick(c) ==
  /\ Waiting(c)
  /\ captures[c].timer > 0
  /\ Step(c, [captures[c] EXCEPT !.timer = @ - 1])
  /\ UNCHANGED << browser, browsers, shutdown >>

\* the timeout of page.goto or page.waitForSelector: the wait throws
TimedOut(c) ==
  /\ Waiting(c)
  /\ captures[c].timer = 0
  /\ Step(c, [captures[c] EXCEPT !.pc = "close", !.timer = -1, !.result = "timeout",
                                 !.thrown = catchBlock(TimeoutError(captures[c].pc))])
  /\ UNCHANGED << browser, browsers, shutdown >>

\* the browser went away under the page: the pending call throws
TargetClosed(c) ==
  /\ captures[c].pc \in { "goto", "waitForSelector", "screenshot" }
  /\ ~isConnected(captures[c].browserInstance)
  /\ Step(c, [captures[c] EXCEPT !.pc = "close", !.timer = -1,
                                 !.result = "browser closed",
                                 !.thrown = catchBlock(TargetClosedError)])
  /\ UNCHANGED << browser, browsers, shutdown >>

\* the delay, page.screenshot and page.evaluate
Screenshot(c) ==
  /\ captures[c].pc = "screenshot"
  /\ isConnected(captures[c].browserInstance)
  /\ Step(c, [captures[c] EXCEPT !.pc = "close", !.page = "none",
                                 !.result = "screenshot"])
  /\ UNCHANGED << browser, browsers, shutdown >>

\* page.screenshot or page.evaluate throws on a page that is still there
ScreenshotFailed(c) ==
  /\ captures[c].pc = "screenshot"
  /\ isConnected(captures[c].browserInstance)
  /\ Step(c, [captures[c] EXCEPT !.pc = "close", !.result = "page error",
                                 !.thrown = catchBlock("page.screenshot: failed")])
  /\ UNCHANGED << browser, browsers, shutdown >>

\* the finally block and the return or the throw
PageClosed(c) ==
  /\ captures[c].pc = "close"
  /\ Step(c, [finallyBlock(captures[c]) EXCEPT
                !.pc = IF captures[c].result = "screenshot" THEN "returned" ELSE "failed"])
  /\ UNCHANGED << browser, browsers, shutdown >>

\* the caller has the result or the error
Settled ==
  \E c \in Captures :
    /\ captures[c].pc \in { "returned", "failed" }
    /\ Step(c, NoCapture)
    /\ UNCHANGED << browser, browsers, shutdown >>

\* SIGTERM or SIGINT: closeBrowser up to its await
Signal ==
  /\ shutdown.pc # "close"
  /\ shutdown.signals < MaxSignals
  /\ shutdown' = IF browser # 0
                   THEN [pc |-> "close", closing |-> browser,
                         signals |-> shutdown.signals + 1]
                   ELSE [pc |-> "handled", closing |-> 0,
                         signals |-> shutdown.signals + 1]
  /\ UNCHANGED << browser, browsers, captures, elsewhere >>

\* await browser.close() is over; browser = null
BrowserClosed ==
  /\ shutdown.pc = "close"
  /\ browsers' = [browsers EXCEPT ![shutdown.closing] = "closed"]
  /\ browser' = 0
  /\ shutdown' = [shutdown EXCEPT !.pc = "handled", !.closing = 0]
  /\ UNCHANGED << captures, elsewhere >>

\* the browser process dies: isConnected() is false from now on
Disconnected ==
  /\ \E b \in 1..Len(browsers) :
       /\ isConnected(b)
       /\ shutdown.closing # b
       /\ browsers' = [browsers EXCEPT ![b] = "closed"]
  /\ UNCHANGED << browser, captures, shutdown, elsewhere >>

\* the continuations and timers of call c that the event loop runs
Continue(c) ==
  \/ Launched(c)
  \/ NewPage(c)
  \/ Tick(c)
  \/ TimedOut(c)
  \/ TargetClosed(c)
  \/ Screenshot(c)
  \/ ScreenshotFailed(c)
  \/ PageClosed(c)

EventLoop == \E c \in Captures : Continue(c)

ScreenshotNext ==
  \/ CaptureScreenshot
  \/ EventLoop
  \/ PageLoaded
  \/ SelectorAppeared
  \/ Settled
  \/ Signal
  \/ BrowserClosed
  \/ Disconnected

ScreenshotSpec == Init /\ [][ScreenshotNext]_vars

\* the event loop runs every continuation that is ready and every timer
\* that is due; requests, signals and the page's own progress are not owed
ScreenshotFairness ==
  /\ \A c \in Captures : WF_vars(Continue(c))
  /\ WF_vars(BrowserClosed)

FairScreenshotSpec == ScreenshotSpec /\ ScreenshotFairness

(***************************************************************************)
(* Properties of the screenshot service.                                   *)
(***************************************************************************)
LiveBrowsers == { b \in 1..Len(browsers) : browsers[b] = "live" }

\* C17: whatever the interleaving of captureScreenshot calls, at most one
\* launched browser is live and every live browser is the one the shared
\* handle refers to.
C17_OneSharedBrowser ==
  /\ Cardinality(LiveBrowsers) <= 1
  /\ \A b \in LiveBrowsers : browser = b

\* C18: a call that waits for a navigation that never settles or for a
\* selector that never appears eventually fails.
C18_WaitsEndByTimeout ==
  \A c \in Captures :
    (Waiting(c) /\ captures[c].page \in { "never settles", "selector never appears" })
      ~> (captures[c].pc = "failed")

C18_Witness ==
  \E c \in Captures :
    /\ captures[c].pc = "failed"
    /\ captures[c].page = "selector never appears"
    /\ captures[c].result = "timeout"
    /\ isConnected(captures[c].browserInstance)

\* C19: when the handling of a termination signal is over, the handle is
\* cleared and no browser is open or still being launched.
C19_SignalClosesEveryBrowser ==
  [][(shutdown.pc # "handled" /\ shutdown'.pc = "handled") =>
       /\ browser' = 0
       /\ \A b \in 1..Len(browsers') : browsers'[b] = "closed"
       /\ \A c \in Captures : captures'[c].pc # "launch"]_vars

(***************************************************************************)
(* routes/clone.ts, clone-service.ts and the validation of the template    *)
(* routes.  A body field is "undefined" when the request leaves it out;    *)
(* an absent and an empty string are both falsy.  Whether a screenshot can *)
(* be captured is the environment's choice.                                *)
(***************************************************************************)
Undefined == "undefined"

falsy(v) == v = Undefined \/ v = ""

FieldValues == { Undefined, "", "given" }

validTypes ==
  << "initial_analysis", "component_suggestion", "compare_screenshots",
     "iteration_guide" >>

RequestTypes ==
  { validTypes[n] : n \in 1..Len(validTypes) } \cup { Undefined, "clone_everything" }

Fulfilled == [type |-> "returns", message |-> ""]

Thrown(message) == [type |-> "throws", message |-> message]

CaptureFailure == Thrown("Failed to capture screenshot")

\* the target screenshot of initial_analysis and compare_screenshots
targetScreenshot(cloneRequest, missing, captured) ==
  IF ~falsy(cloneRequest.targetUrl) THEN (IF captured THEN Fulfilled ELSE CaptureFailure)
  ELSE IF ~falsy(cloneRequest.targetScreenshotBase64) THEN Fulfilled
  ELSE Thrown(missing)

handleInitialAnalysis(cloneRequest, captured) ==
  targetScreenshot(cloneRequest, "Either targetUrl or targetScreenshotBase64 is required",
                   captured)

handleComponentSuggestion(cloneRequest) ==
  IF falsy(cloneRequest.targetDescription)
    THEN Thrown("targetDescription is required for component_suggestion")
    ELSE Fulfilled

handleCompareScreenshots(cloneRequest, captured) ==
  LET target ==
        targetScreenshot(cloneRequest,
          "Target screenshot source required (targetUrl or targetScreenshotBase64)",
          captured)
  IN IF target.type = "throws" THEN target
     ELSE IF falsy(cloneRequest.localUrl)
       THEN Thrown("localUrl is required to capture current implementation")
     ELSE IF captured THEN Fulfilled ELSE CaptureFailure

handleIterationGuide(cloneRequest) == Fulfilled

handleCloneRequest(cloneRequest, captured) ==
  CASE cloneRequest.requestType = "initial_analysis" -> handleInitialAnalysis(cloneRequest, captured)
    [] cloneRequest.requestType = "component_suggestion" -> handleComponentSuggestion(cloneRequest)
    [] cloneRequest.requestType = "compare_screenshots" ->
         handleCompareScreenshots(cloneRequest, captured)
    [] cloneRequest.requestType = "iteration_guide" -> handleIterationGuide(cloneRequest)
    [] OTHER -> Thrown("Unknown cloneRequest type")

BadRequest(message) == [status |-> 400, error |-> message]

\* the catch block of a route
ServerError(thrown) == [status |-> 500, error |-> thrown.message]

Ok == [status |-> 200, error |-> ""]

answer(result) == IF result.type = "throws" THEN ServerError(result) ELSE Ok

\* POST /api/clone
PostClone ==
  /\ httpRequest = NoHttpRequest
  /\ \E t \in RequestTypes, url \in FieldValues, shot \in FieldValues,
        localUrl \in FieldValues, description \in FieldValues, captured \in BOOLEAN :
       LET payload == [route |-> "POST /clone", requestType |-> t, targetUrl |-> url,
                       targetScreenshotBase64 |-> shot, localUrl |-> localUrl,
                       targetDescription |-> description, captured |-> captured]
       IN /\ httpRequest' = payload
          /\ httpResponse' =
               IF \E n \in 1..Len(validTypes) : validTypes[n] = t
                 THEN answer(handleCloneRequest(payload, captured))
                 ELSE BadRequest("Invalid requestType")
  /\ UNCHANGED << finderVars, matcherVars, conversationVars, screenshotVars, clientVars >>

\* POST /api/clone/screenshot
PostCloneScreenshot ==
  /\ httpRequest = NoHttpRequest
  /\ \E url \in FieldValues, captured \in BOOLEAN :
       /\ httpRequest' =
            [route |-> "POST /clone/screenshot", url |-> url, captured |-> captured]
       /\ httpResponse' =
            IF falsy(url) THEN BadRequest("URL is required")
            ELSE answer(IF captured THEN Fulfilled ELSE CaptureFailure)
  /\ UNCHANGED << finderVars, matcherVars, conversationVars, screenshotVars, clientVars >>

\* POST /api/template and POST /api/landing
PostTemplate ==
  /\ httpRequest = NoHttpRequest
  /\ \E route \in { "POST /template", "POST /landing" }, message \in FieldValues :
       /\ httpRequest' = [route |-> route, message |-> message]
       /\ httpResponse' =
            IF falsy(message) THEN BadRequest("Message is required") ELSE Ok
  /\ UNCHANGED << finderVars, matcherVars, conversationVars, screenshotVars, clientVars >>

\* the response is sent
Responded ==
  /\ httpRequest # NoHttpRequest
  /\ httpRequest' = NoHttpRequest
  /\ httpResponse' = NoHttpResponse
  /\ UNCHANGED << finderVars, matcherVars, conversationVars, screenshotVars, clientVars >>

HttpNext ==
  \/ PostClone
  \/ PostCloneScreenshot
  \/ PostTemplate
  \/ Responded

HttpSpec == Init /\ [][HttpNext]_vars

(***************************************************************************)
(* Properties of request validation.                                       *)
(***************************************************************************)
\* the plain messages that name a missing field or a bad requestType
ValidationMessages ==
  { "Invalid requestType", "URL is required", "Message is required",
    "Either targetUrl or targetScreenshotBase64 is required",
    "targetDescription is required for component_suggestion",
    "Target screenshot source required (targetUrl or targetScreenshotBase64)",
    "localUrl is required to capture current implementation" }

\* C20: a request rejected for a missing required field or an unrecognized
\* requestType is answered with status 400, never with 500.
C20_InvalidInputIs400 ==
  httpResponse.error \in ValidationMessages => httpResponse.status = 400

(***************************************************************************)
(* Properties of the scoring of ranked search and of the lookup result.    *)
(***************************************************************************)
normalized == trim(toLowerCase(query))

\* the ladder as stated over the table key and the display name
KeyLadder(i, q) ==
  LET c == COMPONENT_LIBRARY[i]
      display == toLowerCase(c.displayName)
  IN IF c.key = q THEN 100
     ELSE IF display = q THEN 90
     ELSE IF startsWith(c.key, q) THEN 80
     ELSE IF startsWith(display, q) THEN 70
     ELSE IF includes(c.key, q) THEN 60
     ELSE IF includes(display, q) THEN 50
     ELSE IF \E t \in 1..Len(c.tags) : c.tags[t] = q THEN 40
     ELSE IF \E t \in 1..Len(c.tags) : includes(c.tags[t], q) THEN 30
     ELSE IF includes(toLowerCase(c.description), q) THEN 20
     ELSE 0

TierValues == { 100, 90, 80, 70, 60, 50, 40, 30, 20, 0 }

\* C22: for a non-empty normalized query of one word (no bonus applies) the
\* score of every returned component is the value of the first matching tier
\* of the ladder over key, display name, tags and description, and is one of
\* the ten tier values.
C22_StrictTierLadder ==
  (op = "searchComponentsRanked" /\ normalized # <<>>
     /\ Len(split(normalized)) = 1) =>
    \A n \in 1..Len(components) :
       /\ scores[n] = KeyLadder(components[n], normalized)
       /\ scores[n] \in TierValues

\* the distinct words of the query found in the component's description
DistinctWordsFound(i, words) ==
  { words[w] : w \in { x \in 1..Len(words) :
                         includes(toLowerCase(COMPONENT_LIBRARY[i].description),
                                  words[x]) } }

\* C23: with more than one word in the normalized query the total score of a
\* returned component is its tier score plus 5 for each distinct query word
\* found in its description; with one word the total is the tier score.
C23_BonusCountsDistinctWords ==
  op = "searchComponentsRanked" =>
    LET words == split(normalized)
    IN \A n \in 1..Len(components) :
          scores[n] = tierScore(components[n], normalized)
                      + (IF Len(words) > 1
                           THEN 5 * Cardinality(DistinctWordsFound(components[n], words))
                           ELSE 0)

\* C24: two returned components with the same score appear in the order of
\* the table, whatever the query, the category and the limit.
C24_TiesInTableOrder ==
  op = "searchComponentsRanked" =>
    \A m \in 1..Len(components), n \in 1..Len(components) :
       (m < n /\ scores[m] = scores[n]) => components[m] < components[n]

\* search("button") without category returned button first, then glow-button
\* and shimmer-button, the two with equal score
C24_Witness ==
  /\ op = "searchComponentsRanked"
  /\ query = Str_button
  /\ category = <<>>
  /\ Len(components) >= 3
  /\ COMPONENT_LIBRARY[components[1]].key = Str_button
  /\ COMPONENT_LIBRARY[components[2]].key =
       <<"g","l","o","w","-","b","u","t","t","o","n">>
  /\ COMPONENT_LIBRARY[components[3]].key =
       <<"s","h","i","m","m","e","r","-","b","u","t","t","o","n">>
  /\ scores[2] = scores[3]

\* C28: whatever the query, findComponent returns a record of the table or
\* null, never undefined or another value.
C28_RecordOrNull ==
  op = "findComponent" => value.type \in { "component", "null" }

(***************************************************************************)
(* Frame of a conversation step.                                           *)
(***************************************************************************)
AnswerKeys == { CONVERSATION_QUESTIONS[n].key : n \in DOMAIN CONVERSATION_QUESTIONS }

\* C25: a call that carries a state with currentStep in 0..3 yields a next
\* state whose currentStep is one more and whose answers are the supplied
\* answers, unchanged, followed by exactly one new entry: the caller's
\* message under one of the four fixed answer keys.
C25_StepAddsOneAnswer ==
  (calls > 0 /\ request.conversationState # <<>>) =>
    LET supplied == request.conversationState[1]
    IN supplied.currentStep \in 0..3 =>
         /\ response.type = "question"
         /\ response.number = supplied.currentStep + 1
         /\ Len(response.previous) = Len(supplied.answers) + 1
         /\ SubSeq(response.previous, 1, Len(supplied.answers)) = supplied.answers
         /\ response.previous[Len(response.previous)][1] \in AnswerKeys
         /\ response.previous[Len(response.previous)][2] = request.message

(***************************************************************************)
(* Properties of a capture's page and of its failure.                      *)
(***************************************************************************)
\* C26: when a captureScreenshot call has returned or thrown, the page it
\* opened is closed, whichever step succeeded or failed; a page is closed
\* only by the finally block of its own call, and no step of a call changes
\* a browser or another call's record.
C26_PageClosedByItsCapture ==
  /\ [](\A c \in Captures :
          captures[c].pc \in { "returned", "failed" } => ~captures[c].open)
  /\ [][\A c \in Captures :
          (captures[c].open /\ ~captures'[c].open) =>
            /\ captures[c].pc = "close"
            /\ browsers' = browsers /\ browser' = browser
            /\ \A d \in Captures \ {c} : captures'[d] = captures[d]]_vars

\* a call failed on a page error of page.screenshot, its page closed and
\* its browser still connected
C26_Witness ==
  \E c \in Captures :
    /\ captures[c].pc = "failed"
    /\ captures[c].result = "page error"
    /\ ~captures[c].open
    /\ isConnected(captures[c].browserInstance)

\* C27: a call that failed by a navigation or selector-wait timeout throws
\* the generic error with the timeout's message attached, has navigated
\* exactly once and holds no screenshot.
C27_TimeoutFailsOnceGeneric ==
  \A c \in Captures :
    (captures[c].pc = "failed" /\ captures[c].result = "timeout") =>
      /\ Len(captures[c].thrown) = 2
      /\ captures[c].thrown[1] = "Failed to capture screenshot"
      /\ captures[c].thrown[2] \in { TimeoutError("goto"), TimeoutError("waitForSelector") }
      /\ captures[c].gotos = 1

\* a call failed by the timeout of page.goto
C27_Witness ==
  \E c \in Captures :
    /\ captures[c].pc = "failed"
    /\ captures[c].page = "never settles"
    /\ captures[c].thrown = << "Failed to capture screenshot", TimeoutError("goto") >>

(***************************************************************************)
(* The two section selectors: selectSectionsForTemplate of the step-4      *)
(* path and generateSectionsFromAnswers of the path beyond step 4.  A      *)
(* section is its name, its component and its priority; the description    *)
(* is text only.                                                           *)
(***************************************************************************)
Section(name, tailarkComponent, priority) ==
  [name |-> name, tailarkComponent |-> tailarkComponent, priority |-> priority]

Hero == << Section("Hero Section", "hero", 10) >>

Footer == << Section("Footer", "footer", 1) >>

\* switch (answers.purpose): the same in both selectors
purposeSections(purpose) ==
  CASE purpose = "SaaS Product" ->
         << Section("Features", "features", 9), Section("Pricing", "pricing", 8),
            Section("Testimonials", "testimonials", 7) >>
    [] purpose = "Mobile App" ->
         << Section("Features", "features", 9), Section("Stats", "stats", 8),
            Section("Testimonials", "testimonials", 7) >>
    [] purpose = "Ecommerce Product" ->
         << Section("Features", "features", 9), Section("Testimonials", "testimonials", 8),
            Section("Content", "content", 7) >>
    [] purpose = "Personal Portfolio" ->
         << Section("Content", "content", 9), Section("Testimonials", "testimonials", 8),
            Section("Team", "team", 7) >>
    [] purpose = "Event" ->
         << Section("Content", "content", 9), Section("Stats", "stats", 8),
            Section("Testimonials", "testimonials", 7) >>
    [] OTHER -> <<>>

\* if (answers.targetAudience === "Investors"): the same in both selectors
audienceSections(targetAudience) ==
  IF targetAudience = "Investors"
    THEN << Section("Stats", "stats", 8), Section("Team", "team", 7) >>
    ELSE <<>>

\* switch (answers.desiredAction) of selectSectionsForTemplate
selectActionSections(desiredAction) ==
  CASE desiredAction \in { "Sign up", "Request a demo" } ->
         << Section("Call to Action", "call-to-action", 9) >>
    [] desiredAction = "Buy" -> << Section("Pricing", "pricing", 9) >>
    [] desiredAction \in { "Subscribe to newsletter", "Contact you" } ->
         << Section("Call to Action", "call-to-action", 8) >>
    [] OTHER -> <<>>

\* switch (answers.desiredAction) of generateSectionsFromAnswers
generateActionSections(desiredAction) ==
  CASE desiredAction \in { "Sign up", "Request a demo", "Subscribe to newsletter",
                           "Contact you" } ->
         << Section("Call to Action", "call-to-action", 9) >>
    [] desiredAction = "Buy" -> << Section("Pricing", "pricing", 9) >>
    [] OTHER -> <<>>

\* sections.sort((a, b) => b.priority - a.priority), a stable sort
sortSections(seq) ==
  LET before(j, i) == \/ seq[i].priority - seq[j].priority < 0
                      \/ seq[i].priority - seq[j].priority = 0 /\ j < i
      place == [i \in 1..Len(seq) |->
                  1 + Cardinality({ j \in 1..Len(seq) : before(j, i) })]
  IN [p \in 1..Len(seq) |-> seq[CHOOSE i \in 1..Len(seq) : place[i] = p]]

selectSectionsForTemplate(templateAnswers) ==
  sortSections(Hero \o purposeSections(templateAnswers.purpose)
                    \o audienceSections(templateAnswers.targetAudience)
                    \o selectActionSections(templateAnswers.desiredAction)
                    \o Footer)

generateSectionsFromAnswers(templateAnswers) ==
  sortSections(Hero \o purposeSections(templateAnswers.purpose)
                    \o audienceSections(templateAnswers.targetAudience)
                    \o generateActionSections(templateAnswers.desiredAction)
                    \o Footer)

\* the options of the four questions, and an answer that is none of them
Purposes ==
  { "SaaS Product", "Mobile App", "Ecommerce Product", "Personal Portfolio",
    "Event", "Other" }

Audiences == { "Customers", "Investors", "Partners", "Job Applicants", "General Users" }

DesiredActions ==
  { "Sign up", "Request a demo", "Buy", "Subscribe to newsletter", "Contact you",
    "Call us" }

Styles == { "Professional", "Friendly", "Creative", "Minimalist" }

TemplateAnswers ==
  [purpose : Purposes, targetAudience : Audiences, desiredAction : DesiredActions,
   style : Styles]

\* getTemplate with a state at step 4: processConversationStep renders with
\* generateTemplateFromAnswers
RenderAtStepFour ==
  /\ rendered = NotRendered
  /\ \E templateAnswers \in TemplateAnswers :
       rendered' = [step |-> 4, answers |-> templateAnswers,
                    sections |-> selectSectionsForTemplate(templateAnswers)]
  /\ UNCHANGED << finderVars, matcherVars, conversationVars, screenshotVars, httpVars,
                  toolCall, mcpServer >>

\* getTemplate with a state beyond step 4: generateTemplateFromConversation
RenderBeyondStepFour ==
  /\ rendered = NotRendered
  /\ \E templateAnswers \in TemplateAnswers :
       rendered' = [step |-> 5, answers |-> templateAnswers,
                    sections |-> generateSectionsFromAnswers(templateAnswers)]
  /\ UNCHANGED << finderVars, matcherVars, conversationVars, screenshotVars, httpVars,
                  toolCall, mcpServer >>

\* the template is returned
TemplateReturned ==
  /\ rendered # NotRendered
  /\ rendered' = NotRendered
  /\ UNCHANGED << finderVars, matcherVars, conversationVars, screenshotVars, httpVars,
                  toolCall, mcpServer >>

TemplateNext ==
  \/ RenderAtStepFour
  \/ RenderBeyondStepFour
  \/ TemplateReturned

TemplateSpec == Init /\ [][TemplateNext]_vars

\* names and components of a section list, in order
Outline(sectionList) ==
  [n \in 1..Len(sectionList) |->
     << sectionList[n].name, sectionList[n].tailarkComponent >>]

\* C29: for every combination of the four answers, the section list of one
\* render path has the same names and components in the same order as the
\* list the other path recommends for the same answers.
C29_RenderPathsAgree ==
  rendered # NotRendered =>
    Outline(rendered.sections) =
      Outline(IF rendered.step = 4
                THEN generateSectionsFromAnswers(rendered.answers)
                ELSE selectSectionsForTemplate(rendered.answers))

(***************************************************************************)
(* The MCP server process: the HTTP client, the tools' execute methods     *)
(* and runServer with its cleanup.  What the fetch of a call does is the   *)
(* environment's choice.                                                   *)
(***************************************************************************)
Tools ==
  { "list_components", "get_component_details", "get_component", "get_template",
    "clone_frontend" }

\* 2xx with a JSON body, a refused connection, the 30 s abort (whose error is
\* named AbortError or TimeoutError), and a non-2xx status
FetchOutcomes ==
  { [kind |-> "ok", status |-> 200, name |-> ""],
    [kind |-> "connection error", status |-> 0, name |-> "TypeError"],
    [kind |-> "timeout", status |-> 0, name |-> "AbortError"],
    [kind |-> "timeout", status |-> 0, name |-> "TimeoutError"],
    [kind |-> "status", status |-> 400, name |-> ""],
    [kind |-> "status", status |-> 404, name |-> ""],
    [kind |-> "status", status |-> 500, name |-> ""] }

\* httpClient.post: resolves with the data or throws an Error
createMethod(outcome) ==
  CASE outcome.kind = "ok" -> [type |-> "returns", message |-> ""]
    [] outcome.kind = "status" -> [type |-> "throws", message |-> "API Server Error"]
    [] outcome.name = "AbortError" -> [type |-> "throws", message |-> "Request timeout"]
    [] OTHER -> [type |-> "throws", message |-> outcome.name]

TextContent(text) == << [type |-> "text", text |-> text] >>

\* the error handed on to the caller of execute
propagated(tool, message) == [settled |-> "rejected", content |-> <<>>]

\* the catch block of execute: the fallback text of the tool, with the error
\* message in it
fallbackResponse(tool, message) ==
  [settled |-> "resolved", content |-> TextContent(<< "fallback", tool, message >>)]

\* execute once httpClient.post has settled
execute(tool, posted) ==
  IF posted.type = "returns"
    THEN [settled |-> "resolved", content |-> TextContent(<< "result", tool >>)]
    ELSE fallbackResponse(tool, posted.message)

alive == mcpServer.exitCode = -1

serverUnchanged ==
  UNCHANGED << finderVars, matcherVars, conversationVars, screenshotVars, httpVars,
               rendered >>

\* the MCP client calls a tool: execute up to its await of httpClient.post
Execute ==
  /\ alive /\ mcpServer.transport = "open"
  /\ toolCall = NoToolCall
  /\ \E tool \in Tools : toolCall' = [pc |-> "post", tool |-> tool]
  /\ UNCHANGED mcpServer /\ serverUnchanged

\* the fetch settles and httpClient.post returns or throws
Posted ==
  /\ alive
  /\ toolCall.pc = "post"
  /\ \E outcome \in FetchOutcomes :
       toolCall' = [pc |-> "posted", tool |-> toolCall.tool, outcome |-> outcome,
                    posted |-> createMethod(outcome)]
  /\ UNCHANGED mcpServer /\ serverUnchanged

\* the rest of execute: the try block's return or the catch block
Executed ==
  /\ alive
  /\ toolCall.pc = "posted"
  /\ toolCall' = [pc |-> "settled", tool |-> toolCall.tool,
                  outcome |-> toolCall.outcome,
                  result |-> execute(toolCall.tool, toolCall.posted)]
  /\ UNCHANGED mcpServer /\ serverUnchanged

\* the result goes to the MCP client
Answered ==
  /\ alive
  /\ toolCall.pc = "settled"
  /\ toolCall' = NoToolCall
  /\ UNCHANGED mcpServer /\ serverUnchanged

\* how deep the re-entry of cleanup is followed
MaxReentry == 2

\* a guard that never holds
neverShuttingDown(state) == FALSE

\* if (isShuttingDown) return
alreadyShuttingDown(state) == state.isShuttingDown

\* cleanup(): transport.close() may fire onclose, which calls cleanup again,
\* before process.exit(0) is reached
RECURSIVE cleanup(_, _, _)
cleanup(state, fires, depth) ==
  IF alreadyShuttingDown(state) THEN [state EXCEPT !.noops = @ + 1]
  ELSE LET marked == [state EXCEPT !.isShuttingDown = TRUE, !.cleanups = @ + 1]
           closed == [marked EXCEPT !.transport = "closed", !.closes = @ + 1]
           after == IF fires /\ depth < MaxReentry
                      THEN cleanup(closed, fires, depth + 1)
                      ELSE closed
       IN [after EXCEPT !.exitCode = 0]

\* await server.connect(transport) is over
Connected ==
  /\ alive /\ mcpServer.transport = "connecting"
  /\ mcpServer' = [mcpServer EXCEPT !.transport = "open"]
  /\ UNCHANGED toolCall /\ serverUnchanged

\* server.connect throws: process.exit(1)
ConnectFailed ==
  /\ alive /\ mcpServer.transport = "connecting"
  /\ mcpServer' = [mcpServer EXCEPT !.exitCode = 1]
  /\ UNCHANGED toolCall /\ serverUnchanged

\* SIGTERM, SIGINT, beforeExit, uncaughtException or unhandledRejection
ProcessEvent ==
  /\ alive
  /\ \E event \in { "SIGTERM", "SIGINT", "beforeExit", "uncaughtException",
                    "unhandledRejection" }, fires \in BOOLEAN :
       mcpServer' = cleanup([mcpServer EXCEPT !.event = event], fires, 0)
  /\ UNCHANGED toolCall /\ serverUnchanged

\* transport.onerror or transport.onclose
TransportEvent ==
  /\ alive
  /\ \E event \in { "onerror", "onclose" }, fires \in BOOLEAN :
       mcpServer' = cleanup([mcpServer EXCEPT !.event = event], fires, 0)
  /\ UNCHANGED toolCall /\ serverUnchanged

McpNext ==
  \/ Execute
  \/ Posted
  \/ Executed
  \/ Answered
  \/ Connected
  \/ ConnectFailed
  \/ ProcessEvent
  \/ TransportEvent

McpSpec == Init /\ [][McpNext]_vars

C30_CleanupAtMostOnce ==
  mcpServer.cleanups <= 1 /\ mcpServer.closes <= 1

\* SIGTERM was handled, the close fired onclose, and the re-entrant cleanup
\* did nothing
C30_Witness ==
  /\ mcpServer.event = "SIGTERM"
  /\ mcpServer.exitCode = 0
  /\ mcpServer.closes = 1
  /\ mcpServer.noops >= 1

====
